---- MODULE Spec2Model ----
(***************************************************************************)
(* Static host repositories of boundary: host-set membership               *)
(* (AddSetMembers / DeleteSetMembers / SetSetMembers), host catalog and    *)
(* host CRUD, all written through db.Writer inside writer.DoTx together    *)
(* with an oplog entry and guarded by a version token.                     *)
(*                                                                         *)
(* The store (db.Reader / db.Writer / DoTx) and the oplog are modelled as  *)
(* a record `db`; every repository call is a process with a program        *)
(* counter: "kms" means that the parameter checks (and, for SetSetMembers, *)
(* the changes query) have run and the call is about to resolve the oplog  *)
(* wrapper; "tx" means that it is about to execute writer.DoTx; "done"     *)
(* means that it has returned.  The record of a returned call stays in     *)
(* place until the same caller starts its next call.                       *)
(***************************************************************************)
EXTENDS Integers, Sequences, FiniteSets, TLC

\* ------------------------------------------------------------------ bounds
\* calls are started only while the oplog holds fewer entries than this
MaxOplog == 2
\* db.StdRetryCnt, the retry budget the repository gives DoTx: the most
\* times the body of a transaction is run again
StdRetryCnt == 1

\* public_ids.go: the prefixes of the public ids
HostCatalogPrefix == "hcst"
HostSetPrefix == "hsst"
HostPrefix == "hst"

\* A public id is its prefix and the part NewPublicId generates; NoId is "".
PublicId(prefix, n) == [prefix |-> prefix, n |-> n]
NoId == PublicId("", 0)

\* the hosts of the set's catalog, by the generated part of their ids
HostIds == {1, 2}
Procs == {1, 2}
ScopeIds == {"", "o_1"}
TheSet == PublicId(HostSetPrefix, 1)
SetIds == {NoId, TheSet}
Versions == 0..(MaxOplog + 2)

RECURSIVE SeqsUpTo(_, _)
SeqsUpTo(S, n) ==
    IF n = 0 THEN {<<>>}
    ELSE LET shorter == SeqsUpTo(S, n - 1)
         IN shorter \cup {Append(s, x) : s \in {t \in shorter : Len(t) = n - 1}, x \in S}

HostIdLists == SeqsUpTo(HostIds, Cardinality(HostIds))

Range(s) == {s[i] : i \in 1..Len(s)}

\* ------------------------------------------------------------------ errors
\* A returned error is its errors.Code plus the class of the store error it
\* wraps ("" when it wraps none).
NoErr == [code |-> "nil", cause |-> ""]
NewErr(code) == [code |-> code, cause |-> ""]
\* errors.Wrap of a foreign (store / kms) error: code Unknown, cause kept
WrapStoreErr(cause) == [code |-> "Unknown", cause |-> cause]
\* the error of the call point of the store under the fault
StoreErr(fail, point) ==
    WrapStoreErr(IF fail = point THEN point \o "_failed" ELSE "serialization_failure")
\* the error DoTx has of a run of the body that returned err: err, or that
\* of the commit when the body returned none and the commit fails
RunErr(err, commitFails) ==
    IF err = NoErr /\ commitFails THEN WrapStoreErr("serialization_failure") ELSE err

NoRowsAffected == 0

\* ------------------------------------------------------- package errors
\* Error values in full.  A nil error, a *errors.Err, and the errors of other
\* packages: a standard error with its text, a store-driver (pq) error with
\* its SQLSTATE code and the text Convert takes from it.  (The repository
\* above carries only the code and the cause of an error.)
NilError == [type |-> "nil"]
Err(code, msg, id, wrapped) ==
    [type |-> "Err", Code |-> code, Msg |-> msg, ErrorId |-> id, Wrapped |-> wrapped]
StdError(text) == [type |-> "std", text |-> text]
PqError(code, text) == [type |-> "pq", code |-> code, text |-> text]

\* errorCodeInfo: the kind and the default message of each code
Codes ==
    {"Unknown", "InvalidParameter", "InvalidAddress", "InvalidFieldMask", "EmptyFieldMask",
     "MissingScopeId", "MissingPublicId", "MissingSetId", "MissingVersion",
     "MissingCatalogId", "MissingHostIds", "GenerateId", "CheckConstraint", "NotNull",
     "NotUnique", "NotSpecificIntegrity", "MissingTable", "RecordNotFound",
     "MultipleRecords"}
\* a registry in which every code has the entry of Unknown
errorCodeInfo_AllUnknown(code) == [Message |-> "unknown", Kind |-> "Other"]

errorCodeInfo(code) ==
    CASE code = "Unknown" -> [Message |-> "unknown", Kind |-> "Other"]
      [] code = "InvalidParameter" -> [Message |-> "invalid parameter", Kind |-> "Parameter"]
      [] code = "InvalidAddress" -> [Message |-> "invalid address", Kind |-> "Parameter"]
      [] code = "InvalidFieldMask" -> [Message |-> "invalid field mask", Kind |-> "Parameter"]
      [] code = "EmptyFieldMask" -> [Message |-> "empty field", Kind |-> "Parameter"]
      [] code = "MissingScopeId" -> [Message |-> "missing scope id", Kind |-> "Parameter"]
      [] code = "MissingPublicId" -> [Message |-> "missing public id", Kind |-> "Parameter"]
      [] code = "MissingSetId" -> [Message |-> "missing set id", Kind |-> "Parameter"]
      [] code = "MissingVersion" -> [Message |-> "missing version", Kind |-> "Parameter"]
      [] code = "MissingCatalogId" -> [Message |-> "missing catalog id", Kind |-> "Parameter"]
      [] code = "MissingHostIds" -> [Message |-> "missing host ids", Kind |-> "Parameter"]
      [] code = "GenerateId" -> [Message |-> "failed to generate ID", Kind |-> "Parameter"]
      [] code = "CheckConstraint" -> [Message |-> "constraint check failed", Kind |-> "Integrity"]
      [] code = "NotNull" ->
           [Message |-> "must not be empty (null) violation", Kind |-> "Integrity"]
      [] code = "NotUnique" -> [Message |-> "must be unique violation", Kind |-> "Integrity"]
      [] code = "NotSpecificIntegrity" ->
           [Message |-> "Integrity violation without specific details", Kind |-> "Integrity"]
      [] code = "MissingTable" -> [Message |-> "missing table", Kind |-> "Integrity"]
      [] code = "RecordNotFound" -> [Message |-> "record not found", Kind |-> "Search"]
      [] code = "MultipleRecords" -> [Message |-> "multiple records", Kind |-> "Search"]

\* the options of New and Wrap; "" and NilError stand for an option not given
NoOpts == [withErrMsg |-> "", withErrWrapped |-> NilError]
WithMsg(opts, msg) == [opts EXCEPT !.withErrMsg = msg]
WithWrap(opts, e) == [opts EXCEPT !.withErrWrapped = e]

\* errors.New(code, id, opt...)
New(code, id, opts) == Err(code, opts.withErrMsg, id, opts.withErrWrapped)

\* Wrap that honours a WithWrap option
Wrap_HonoursWithWrap(e, id, opts) ==
    Err(IF e.type = "Err" THEN e.Code ELSE "Unknown", opts.withErrMsg, id,
        IF opts.withErrWrapped # NilError THEN opts.withErrWrapped ELSE e)

\* errors.Wrap(e, id, opt...) of an error that is not nil
Wrap(e, id, opts) ==
    Err(IF e.type = "Err" THEN e.Code ELSE "Unknown", opts.withErrMsg, id, e)

\* an Unwrap that gives up the wrapped error
Unwrap_Nothing(e) == NilError

\* e.Unwrap()
Unwrap(e) == IF e.type = "Err" THEN e.Wrapped ELSE NilError

\* the sentinel errors of the package
ErrInvalidParameter == Err("InvalidParameter", "invalid parameter", "", NilError)
ErrRecordNotFound == Err("RecordNotFound", "record not found", "", NilError)
ErrNotUnique == Err("NotUnique", "unique constraint violation", "", NilError)
ErrNotNull == Err("NotNull", "not null constraint violated", "", NilError)
ErrCheckConstraint == Err("CheckConstraint", "check constraint violated", "", NilError)

\* errors.Is(err, target): some error of the chain of err is target, or is a
\* domain error with the code of the domain error target
RECURSIVE Is(_, _)
Is(err, target) ==
    /\ err # NilError
    /\ \/ err = target
       \/ err.type = "Err" /\ target.type = "Err" /\ err.Code = target.Code
       \/ Is(Unwrap(err), target)

\* errors.Match(errors.T(code), err): err is a domain error with the code
Match(code, err) == err.type = "Err" /\ err.Code = code

\* the class of a SQLSTATE code (its first two characters)
SqlClass(code) ==
    CASE code \in {"23001", "23502", "23503", "23505", "23514"} -> "23"
      [] code = "42P01" -> "42"
      [] code = "40001" -> "40"

\* Convert that knows no class of integrity errors, only the named ones
ConvertStoreError_NoClass(e, id) ==
    IF e.type # "pq" THEN NilError
    ELSE CASE e.code = "23505" -> New("NotUnique", id, WithWrap(WithMsg(NoOpts, e.text), ErrNotUnique))
           [] e.code = "23502" -> New("NotNull", id, WithWrap(WithMsg(NoOpts, e.text), ErrNotNull))
           [] e.code = "23514" ->
                New("CheckConstraint", id, WithWrap(WithMsg(NoOpts, e.text), ErrCheckConstraint))
           [] e.code = "42P01" -> New("MissingTable", id, WithMsg(NoOpts, e.text))
           [] OTHER -> NilError

\* errors.Convert(e, id) on error values in full: the domain error of a
\* store-driver error it recognises, nil for every other error
ConvertStoreError(e, id) ==
    IF e.type # "pq" THEN NilError
    ELSE CASE e.code = "23505" -> New("NotUnique", id, WithWrap(WithMsg(NoOpts, e.text), ErrNotUnique))
           [] e.code = "23502" -> New("NotNull", id, WithWrap(WithMsg(NoOpts, e.text), ErrNotNull))
           [] e.code = "23514" ->
                New("CheckConstraint", id, WithWrap(WithMsg(NoOpts, e.text), ErrCheckConstraint))
           [] e.code = "42P01" -> New("MissingTable", id, WithMsg(NoOpts, e.text))
           [] SqlClass(e.code) = "23" -> New("NotSpecificIntegrity", id, WithMsg(NoOpts, e.text))
           [] OTHER -> NilError

\* Kind.String()
KindString(kind) ==
    CASE kind = "Other" -> "unknown"
      [] kind = "Parameter" -> "parameter violation"
      [] kind = "Integrity" -> "integrity violation"
      [] kind = "Search" -> "search issue"

\* the number of a code, for the codes whose number the tests show
CodeNumber(code) ==
    CASE code = "Unknown" -> 0
      [] code = "CheckConstraint" -> 1000
      [] code = "NotNull" -> 1001
      [] code = "NotUnique" -> 1002
      [] code = "MissingTable" -> 1004

\* e.Error(): the id, the message or else the default message of the code,
\* the kind, the number of the code, and the string of the wrapped error
RECURSIVE ErrorString(_)
ErrorString(e) ==
    IF e.type = "nil" THEN ""
    ELSE IF e.type # "Err" THEN e.text
    ELSE LET \* join(&s, sep, str): str appended to s, after sep if s is not empty
             Join(s, sep, str) == IF s = "" THEN str ELSE s \o sep \o str
             info == errorCodeInfo(e.Code)
             s1 == IF e.ErrorId # "" THEN e.ErrorId ELSE ""
             s2 == IF e.Msg # "" THEN Join(s1, ": ", e.Msg) ELSE s1
             s3 == IF e.Msg = ""
                   THEN Join(Join(s2, ": ", info.Message), ", ", KindString(info.Kind))
                   ELSE Join(s2, ": ", KindString(info.Kind))
             s4 == Join(s3, ": ", "error #" \o ToString(CodeNumber(e.Code)))
         IN IF e.Wrapped # NilError THEN Join(s4, ": \n", ErrorString(e.Wrapped)) ELSE s4

\* what was last computed in package errors or by the API error handler: the
\* function, its arguments, and its result
NoEv ==
    [fn |-> "none", e |-> NilError, id |-> "", opts |-> NoOpts, target |-> NilError,
     code |-> "", out |-> NilError, str |-> "", ok |-> FALSE,
     resp |-> [Status |-> 0, Code |-> "", Message |-> "", RequestFields |-> <<>>,
               ErrorId |-> ""]]

\* ------------------------------------------------------------------- state
VARIABLES db, calls, ev
vars == <<db, calls, ev>>

\* a nil *HostCatalog or *Host
NoEnt == [nil |-> TRUE]

\* fault injected into one execution of a transaction body: none, the call
\* of the store that returns an error, or an update that reports two rows
FailPoints == {"none", "delete", "create", "update", "multi", "ticket", "oplog", "read"}
\* the calls of the store that may return an error
StorePoints == {"delete", "create", "update", "ticket", "oplog", "read"}
\* the fault of a call of the store that fails with a serialization failure,
\* after which the transaction can be tried again
Transient == [point \in StorePoints |-> point \o "~"]
TransientFaults == {Transient[point] : point \in StorePoints}
\* the fault is one of the call point of the store, lasting or transient
FailsAt(fail, point) == fail = point \/ fail = Transient[point]

\* the fault of a commit that fails with a serialization failure, after the
\* body ran to its end
CommitFault == "commit~"
\* the faults a run of a transaction body can meet
Faults == FailPoints \cup TransientFaults \cup {CommitFault}

IdleCall ==
    [op |-> "none", pc |-> "idle", scopeId |-> "", setId |-> NoId, version |-> 0,
     hostIds |-> <<>>, additions |-> <<>>, deletions |-> <<>>, nchanges |-> 0,
     arg |-> NoEnt, ent |-> NoEnt, loc |-> NoEnt, publicId |-> NoId, optId |-> NoId,
     mask |-> <<>>, dbMask |-> {}, nullFields |-> {},
     retries |-> 0, txErr |-> NoErr, rowsUpdated |-> 0, rowsDeleted |-> 0,
     err |-> NoErr, count |-> 0, hosts |-> {}, ret |-> NoEnt, list |-> {},
     steps |-> <<>>, meta |-> <<>>, began |-> 0, ended |-> 0]

\* The length of the oplog when a call is entered and when its transaction
\* has ended place the call in the order of the commits.  DoTx's count of
\* the runs of the body ends with DoTx; the error after which it last ran
\* the body again stays on record.
Began(c, n) == [c EXCEPT !.began = n, !.ended = n]
Ended(c, n) == [c EXCEPT !.ended = n, !.retries = 0]

\* ------------------------------------------------- the store (db.Writer)
\* oplog.Message: operation type, row type and row id.  NewOplogMsg leaves
\* the message empty when the write touched no row.
Msg(opType, typeName, id) == [OpType |-> opType, TypeName |-> typeName, Id |-> id]
EmptyMsg == Msg("UNSPECIFIED", "", 0)

\* w.CreateItems(members, NewOplogMsgs(&msgs)): inserts one
\* static_host_set_member row per item; (set_id, host_id) is the primary key.
CreateItems(st, ids, fail) ==
    IF FailsAt(fail, "create")
    THEN [st |-> st, err |-> StoreErr(fail, "create"), msgs |-> <<>>]
    ELSE IF Cardinality(Range(ids)) # Len(ids) \/ Range(ids) \cap st.members # {}
    THEN [st |-> st, err |-> WrapStoreErr("unique_violation"), msgs |-> <<>>]
    ELSE [st |-> [st EXCEPT !.members = @ \cup Range(ids)],
          err |-> NoErr,
          msgs |-> [i \in 1..Len(ids) |-> Msg("CREATE", "static_host_set_member", ids[i])]]

\* w.DeleteItems(members, NewOplogMsgs(&msgs)): deletes the items one by one
\* and returns the number of rows that were actually deleted.
DeleteItems(st, ids, fail) ==
    IF FailsAt(fail, "delete")
    THEN [st |-> st, err |-> StoreErr(fail, "delete"), rows |-> NoRowsAffected, msgs |-> <<>>]
    ELSE [st |-> [st EXCEPT !.members = @ \ Range(ids)],
          err |-> NoErr,
          rows |-> Cardinality(Range(ids) \cap st.members),
          msgs |-> [i \in 1..Len(ids) |-> Msg("DELETE", "static_host_set_member", ids[i])]]

\* w.Update(set, {"Version"}, nil, NewOplogMsg(setMsg), WithVersion(&version)):
\* update static_host_set set version = set.Version
\*  where public_id = set.PublicId and version = version.
UpdateSetVersion(st, set, version, fail) ==
    IF FailsAt(fail, "update")
    THEN [st |-> st, err |-> StoreErr(fail, "update"), rows |-> NoRowsAffected, msg |-> EmptyMsg]
    ELSE IF fail = "multi"
    THEN [st |-> st, err |-> NoErr, rows |-> 2, msg |-> EmptyMsg]
    ELSE IF set.PublicId = TheSet /\ st.setVersion = version
    THEN [st |-> [st EXCEPT !.setVersion = set.Version], err |-> NoErr, rows |-> 1,
          msg |-> Msg("UPDATE", "static_host_set", 0)]
    ELSE [st |-> st, err |-> NoErr, rows |-> NoRowsAffected, msg |-> EmptyMsg]

\* w.GetTicket(set)
GetTicket(fail) == IF FailsAt(fail, "ticket") THEN StoreErr(fail, "ticket") ELSE NoErr

\* w.WriteOplogEntryWith(wrapper, ticket, metadata, msgs): appends one entry
WriteOplogEntryWith(st, metadata, msgs, fail) ==
    IF FailsAt(fail, "oplog")
    THEN [st |-> st, err |-> StoreErr(fail, "oplog")]
    ELSE [st |-> [st EXCEPT !.oplog = Append(@, [metadata |-> metadata, msgs |-> msgs])],
          err |-> NoErr]

\* reader.SearchWhere(&hosts, "public_id in (select host_id from
\* static_host_set_member where set_id = $1)")
SearchWhere(st, setId, fail) ==
    IF FailsAt(fail, "read")
    THEN [err |-> StoreErr(fail, "read"), hosts |-> {}]
    ELSE [err |-> NoErr, hosts |-> IF setId = TheSet THEN st.members ELSE {}]

\* writer.DoTx: the body ran on the transaction's view of the store; its
\* writes are committed iff it returned no error, otherwise rolled back.
DoTx(st, body) == IF body.err = NoErr THEN body.st ELSE st

\* writer.DoTx(ctx, db.StdRetryCnt, db.ExpBackoff{}, body): after the body
\* failed with e and was rolled back, it is run again iff e is a transient
\* (serialization-class) failure of the store and it has been run again
\* fewer than StdRetryCnt times
DoTxRetries(retries, e) == e.cause = "serialization_failure" /\ retries < StdRetryCnt

\* the sequence of the elements of S in increasing order
RECURSIVE SortedSeq(_)
SortedSeq(S) ==
    IF S = {} THEN <<>>
    ELSE LET m == CHOOSE x \in S : \A y \in S : x <= y
         IN <<m>> \o SortedSeq(S \ {m})

\* reader.Query(setChangesQuery, setId, hostIds...): the rows {Action, HostId}
\* of the difference between the set's members and hostIds.
Query(st, setId, hostIds, fail) ==
    IF fail = "read"
    THEN [err |-> WrapStoreErr("read_failed"), rows |-> <<>>]
    ELSE LET cur == IF setId = TheSet THEN st.members ELSE {}
             adds == SortedSeq(Range(hostIds) \ cur)
             dels == SortedSeq(cur \ Range(hostIds))
         IN [err |-> NoErr,
             rows |-> [i \in 1..Len(adds) |-> [Action |-> "add", HostId |-> adds[i]]]
                      \o [i \in 1..Len(dels) |-> [Action |-> "delete", HostId |-> dels[i]]]]

\* ---------------------------------------------- catalogs and hosts: rows
Catalog(id, scopeId, name, description, version) ==
    [PublicId |-> id, ScopeId |-> scopeId, Name |-> name, Description |-> description,
     Version |-> version]
Host(id, catalogId, name, description, address, version) ==
    [PublicId |-> id, CatalogId |-> catalogId, Name |-> name, Description |-> description,
     Address |-> address, Version |-> version]
TheCatalog == PublicId(HostCatalogPrefix, 1)

\* host.go: the bounds of the length of a host's address
MinHostAddressLength == 7
MaxHostAddressLength == 255

\* A string of the model holds the characters U+0000 to U+00FF; the program
\* holds it in UTF-8.
\* the characters of s
Chars(s) == {SubSeq(s, i, i) : i \in 1..Len(s)}

\* the characters unicode.IsSpace takes for white space: \t, \n, \v, \f, \r,
\* the space, U+0085 and U+00A0
WhiteSpace == "\t\n\f\r  "
SpaceChars == Chars(WhiteSpace)
IsSpace(ch) == ch \in SpaceChars

\* the characters U+0080 to U+00FF, of two bytes each in UTF-8; the others of
\* the model are of one byte
TwoByteLetters ==
    " ¡¢£¤¥¦§¨©ª«¬­®¯°±²³´µ¶·¸¹º»¼½¾¿ÀÁÂÃÄÅÆÇÈÉÊËÌÍÎÏÐÑÒÓÔÕÖ×ØÙÚÛÜÝÞßàáâãäåæçèéêëìíîïðñòóôõö÷øùúûüýþÿ"
TwoByteChars == Chars(TwoByteLetters)

\* len(a): the number of bytes of a
len(a) == Len(a) + Cardinality({i \in 1..Len(a) : SubSeq(a, i, i) \in TwoByteChars})

\* strings.Repeat(a, n)
RECURSIVE Repeat(_, _)
Repeat(a, n) ==
    IF n = 0 THEN ""
    ELSE LET half == Repeat(a, n \div 2)
         IN IF n % 2 = 0 THEN half \o half ELSE half \o half \o a

\* strings.TrimSpace(a): a without the white space in front of its first and
\* behind its last character that is not white space; start is the index of
\* the first such character and cut the number of characters behind the last
TrimSpace(a) ==
    IF \A i \in 1..Len(a) : IsSpace(SubSeq(a, i, i)) THEN ""
    ELSE LET start == CHOOSE i \in 1..Len(a) :
                          /\ ~ IsSpace(SubSeq(a, i, i))
                          /\ \A j \in 1..(i - 1) : IsSpace(SubSeq(a, j, j))
             cut == CHOOSE k \in 0..(Len(a) - 1) :
                        /\ ~ IsSpace(SubSeq(a, Len(a) - k, Len(a) - k))
                        /\ \A j \in 0..(k - 1) : IsSpace(SubSeq(a, Len(a) - j, Len(a) - j))
         IN SubSeq(a, start, Len(a) - cut)

\* the letters strings.EqualFold takes for one another: A to Z, U+00C0 to
\* U+00DE but U+00D7, and their lower-case forms
UpperLetters == "ABCDEFGHIJKLMNOPQRSTUVWXYZÀÁÂÃÄÅÆÇÈÉÊËÌÍÎÏÐÑÒÓÔÕÖØÙÚÛÜÝÞ"
LowerLetters == "abcdefghijklmnopqrstuvwxyzàáâãäåæçèéêëìíîïðñòóôõöøùúûüýþ"
LowerOf ==
    [ch \in {SubSeq(UpperLetters, i, i) : i \in 1..Len(UpperLetters)} |->
        LET i == CHOOSE j \in 1..Len(UpperLetters) : SubSeq(UpperLetters, j, j) = ch
        IN SubSeq(LowerLetters, i, i)]
ToLower(ch) == IF ch \in DOMAIN LowerOf THEN LowerOf[ch] ELSE ch

\* the lower-case form of f from its i-th character on
RECURSIVE FoldFrom(_, _)
FoldFrom(f, i) ==
    IF i > Len(f) THEN "" ELSE ToLower(SubSeq(f, i, i)) \o FoldFrom(f, i + 1)

\* the lower-case form of f
Fold(f) == FoldFrom(f, 1)

\* strings.EqualFold(a, b): equal but for the case of the letters
EqualFold(a, b) ==
    /\ Len(a) = Len(b)
    /\ \A i \in 1..Len(a) : ToLower(SubSeq(a, i, i)) = ToLower(SubSeq(b, i, i))

\* strings.HasPrefix(id, prefix + "_")
HasPrefix(id, prefix) == id.prefix = prefix

\* the value of a row's field given by its lower-case name
Field(row, f) ==
    CASE f = "name" -> row.Name
      [] f = "description" -> row.Description
      [] f = "address" -> row.Address

\* row with the field given by its lower-case name set to v
WithField(row, f, v) ==
    CASE f = "name" -> [row EXCEPT !.Name = v]
      [] f = "description" -> [row EXCEPT !.Description = v]
      [] f = "address" -> [row EXCEPT !.Address = v]

RECURSIVE WithFields(_, _, _)
\* row with the columns of fs overwritten with the values src has for them
WithFields(row, fs, src) ==
    IF fs = {} THEN row
    ELSE LET f == CHOOSE x \in fs : TRUE
         IN WithFields(WithField(row, f, Field(src, f)), fs \ {f}, src)

\* A column that is NULL holds no value: the store keeps, apart from the
\* rows, the marks of the columns that are NULL, and a row read back into a
\* Go string has the zero value "" where the column is NULL.  A column that
\* holds the empty string has no mark.
NullMark(table, id, f) == <<table, id, f>>
IsNull(st, table, id, f) == NullMark(table, id, f) \in st.nulls
\* the columns a create leaves NULL: name and description are written only
\* when they have a value
Nullable == {"name", "description"}
UnsetFields(row) == {f \in Nullable : Field(row, f) = ""}

RECURSIVE ReadNull(_, _)
\* row as it is read back when the columns of fs are NULL
ReadNull(row, fs) ==
    IF fs = {} THEN row
    ELSE LET f == CHOOSE x \in fs : TRUE
         IN ReadNull(WithField(row, f, ""), fs \ {f})

\* the marks after the columns of set of the row id got a value and the
\* columns of null were set to NULL
WithNulls(st, table, id, set, null) ==
    [st EXCEPT !.nulls = (@ \ {NullMark(table, id, f) : f \in set})
                             \cup {NullMark(table, id, f) : f \in null}]
\* the marks without those of the rows of ids, which are deleted
WithoutNulls(st, table, ids) ==
    [st EXCEPT !.nulls = {m \in @ : ~ (m[1] = table /\ m[2] \in ids)}]

\* the scope of a catalog row, the catalog of a host row
Parent(table, row) == IF table = "catalogs" THEN row.ScopeId ELSE row.CatalogId
TypeName(table) == IF table = "catalogs" THEN "static_host_catalog" ELSE "static_host"

\* metadata of the oplog entry of a catalog or host (newCatalogMetadata, h.oplog)
EntOplog(ent, op) == [resourceId |-> ent.PublicId, opTypes |-> <<op>>]

\* -------------------------------------- the store: rows of catalogs, hosts
\* a Name that is set is unique within the scope (catalogs) or the catalog
\* (hosts)
NameTaken(st, table, row) ==
    /\ row.Name # ""
    /\ \E r \in st[table] :
          r.PublicId # row.PublicId /\ Parent(table, r) = Parent(table, row) /\ r.Name = row.Name

\* rows of st[table] replaced by rows
WithTable(st, table, rows) ==
    IF table = "catalogs" THEN [st EXCEPT !.catalogs = rows] ELSE [st EXCEPT !.hosts = rows]

\* w.Create(row, WithOplog(wrapper, metadata))
Create(st, table, row, metadata, fail) ==
    IF FailsAt(fail, "create") THEN [st |-> st, err |-> StoreErr(fail, "create")]
    ELSE IF \E r \in st[table] : r.PublicId = row.PublicId
    THEN [st |-> st, err |-> WrapStoreErr("unique_violation")]
    ELSE IF NameTaken(st, table, row)
    THEN [st |-> st, err |-> WrapStoreErr("unique_violation")]
    ELSE IF table = "hosts" /\ ~ \E c \in st.catalogs : c.PublicId = row.CatalogId
    THEN [st |-> st, err |-> WrapStoreErr("foreign_key_violation")]
    ELSE LET new == [row EXCEPT !.Version = 1]
             st1 == WithNulls(WithTable(st, table, st[table] \cup {new}), table,
                              row.PublicId, {}, UnsetFields(row))
         IN WriteOplogEntryWith(st1, metadata,
                                <<Msg("CREATE", TypeName(table), row.PublicId.n)>>, fail)

\* w.Update(row, dbMask, nullFields, WithOplog(wrapper, metadata),
\* WithVersion(&version)): update ... where public_id = row.PublicId and
\* version = version; the columns of dbMask are overwritten with the values
\* of row, those of nullFields are set to NULL, the version of an updated row
\* is bumped, and the oplog entry is written iff a row was updated.
Update(st, table, row, dbMask, nullFields, metadata, version, fail) ==
    LET hit == {r \in st[table] : r.PublicId = row.PublicId /\ r.Version = version}
    IN IF FailsAt(fail, "update")
       THEN [st |-> st, err |-> StoreErr(fail, "update"), rows |-> NoRowsAffected, row |-> row]
       ELSE IF fail = "multi"
       THEN [st |-> st, err |-> NoErr, rows |-> 2, row |-> row]
       ELSE IF hit = {}
       THEN [st |-> st, err |-> NoErr, rows |-> NoRowsAffected, row |-> row]
       ELSE LET old == CHOOSE r \in hit : TRUE
                new == [ReadNull(WithFields(old, dbMask, row), nullFields)
                          EXCEPT !.Version = old.Version + 1]
            IN IF NameTaken(st, table, new)
               THEN [st |-> st, err |-> WrapStoreErr("unique_violation"),
                     rows |-> NoRowsAffected, row |-> row]
               ELSE LET st1 == WithNulls(WithTable(st, table, (st[table] \ {old}) \cup {new}),
                                         table, row.PublicId, dbMask, nullFields)
                        w == WriteOplogEntryWith(st1, metadata,
                                 <<Msg("UPDATE", TypeName(table), row.PublicId.n)>>, fail)
                    IN [st |-> w.st, err |-> w.err,
                        rows |-> IF w.err = NoErr THEN 1 ELSE NoRowsAffected,
                        row |-> IF w.err = NoErr THEN new ELSE row]

\* Delete, except that the oplog entry is written whether or not a row was
\* deleted
Delete_LogsNoRow(st, table, id, metadata, fail) ==
    LET hit == {r \in st[table] : r.PublicId = id}
    IN IF FailsAt(fail, "delete")
       THEN [st |-> st, err |-> StoreErr(fail, "delete"), rows |-> NoRowsAffected]
       ELSE IF fail = "multi"
       THEN [st |-> st, err |-> NoErr, rows |-> 2]
       ELSE LET st1 == WithoutNulls(WithTable(st, table, st[table] \ hit), table, {id})
                w == WriteOplogEntryWith(st1, metadata,
                                         <<Msg("DELETE", TypeName(table), id.n)>>, fail)
            IN [st |-> w.st, err |-> w.err,
                rows |-> IF w.err = NoErr THEN Cardinality(hit) ELSE NoRowsAffected]

\* w.Delete(row, WithOplog(wrapper, metadata)): delete ... where public_id =
\* row.PublicId; the oplog entry is written iff a row was deleted.
Delete(st, table, id, metadata, fail) ==
    LET hit == {r \in st[table] : r.PublicId = id}
    IN IF FailsAt(fail, "delete")
       THEN [st |-> st, err |-> StoreErr(fail, "delete"), rows |-> NoRowsAffected]
       ELSE IF fail = "multi"
       THEN [st |-> st, err |-> NoErr, rows |-> 2]
       ELSE IF hit = {}
       THEN [st |-> st, err |-> NoErr, rows |-> NoRowsAffected]
       ELSE LET st1 == WithoutNulls(WithTable(st, table, st[table] \ hit), table, {id})
                w == WriteOplogEntryWith(st1, metadata,
                                         <<Msg("DELETE", TypeName(table), id.n)>>, fail)
            IN [st |-> w.st, err |-> w.err,
                rows |-> IF w.err = NoErr THEN Cardinality(hit) ELSE NoRowsAffected]

\* reader.LookupByPublicId(row)
LookupByPublicId(st, table, id, readFails) ==
    LET hit == {r \in st[table] : r.PublicId = id}
    IN IF readFails THEN [err |-> WrapStoreErr("read_failed"), row |-> NoEnt]
       ELSE IF hit = {} THEN [err |-> NewErr("RecordNotFound"), row |-> NoEnt]
       ELSE [err |-> NoErr, row |-> CHOOSE r \in hit : TRUE]

\* errors.Convert(err, id): the domain error of a store error it recognises,
\* NoErr (nil) for any other error
Convert(e) ==
    CASE e.cause = "unique_violation" -> [code |-> "NotUnique", cause |-> e.cause]
      [] e.cause = "not_null_violation" -> [code |-> "NotNull", cause |-> e.cause]
      [] e.cause = "check_violation" -> [code |-> "CheckConstraint", cause |-> e.cause]
      [] e.cause = "undefined_table" -> [code |-> "MissingTable", cause |-> e.cause]
      [] e.cause = "foreign_key_violation" -> [code |-> "NotSpecificIntegrity", cause |-> e.cause]
      [] OTHER -> NoErr

\* errors.New(errors.Unknown, id, WithMsg(...), WithWrap(err))
NewUnknownWrapping(e) ==
    [code |-> "Unknown", cause |-> IF e.cause # "" THEN e.cause ELSE e.code]

\* ConvertOrUnknown without the call of errors.Convert
ConvertOrUnknown_NoConvert(e) == NewUnknownWrapping(e)

\* the error CreateCatalog, UpdateCatalog, CreateHost and UpdateHost return
\* for the error of their transaction
ConvertOrUnknown(e) == IF Convert(e) # NoErr THEN Convert(e) ELSE NewUnknownWrapping(e)

\* ----------------------------------------------- handlers (ErrorHandler)
\* the fixed texts of the handler
genericUniquenessMsg == "genericUniquenessMsg"
genericNotFoundMsg == "genericNotFoundMsg"
\* the errors the handler knows besides those above: the gateway's routing
\* error, an RPC status error, and the request errors of the two helpers
ErrNotMatch == [type |-> "notmatch"]
StatusError(code, text) == [type |-> "status", code |-> code, text |-> text]
NotFoundErrorf(msg) ==
    [type |-> "api", Status |-> 404, Code |-> "NotFound", Message |-> msg, fields |-> <<>>]
InvalidArgumentErrorf(msg, fields) ==
    [type |-> "api", Status |-> 400, Code |-> "InvalidArgument", Message |-> msg,
     fields |-> fields]

\* pb.Error: the response written
Response(status, code, message, fields, errorId) ==
    [Status |-> status, Code |-> code, Message |-> message, RequestFields |-> fields,
     ErrorId |-> errorId]

\* the field names there are, in their order
FieldNames == <<"k1", "k2", "update_mask">>

\* the fields in the reverse of the order of their names
SortFields_Reversed(fields) ==
    LET names == SelectSeq(FieldNames, LAMBDA n : n \in DOMAIN fields)
    IN [i \in 1..Len(names) |->
          [Name |-> names[Len(names) + 1 - i], Description |-> fields[names[Len(names) + 1 - i]]]]

\* the request fields of a map of field name to description, sorted by name
SortFields(fields) ==
    LET names == SelectSeq(FieldNames, LAMBDA n : n \in DOMAIN fields)
    IN [i \in 1..Len(names) |-> [Name |-> names[i], Description |-> fields[names[i]]]]

\* a 500 response that passes the message of the error on
InternalError_EchoesMsg(e, gen) ==
    Response(500, "Internal", IF e.type = "Err" THEN e.Msg ELSE e.text, <<>>, gen)

\* the 500 response: no message, and the generated error id gen
InternalError(e, gen) == Response(500, "Internal", "", <<>>, gen)

\* a table in which a uniqueness error is a conflict
DomainResponse_Conflict(e, gen) ==
    CASE e.Code \in {"InvalidFieldMask", "EmptyFieldMask"} ->
           Response(400, "InvalidArgument", "Error in provided request",
                    <<[Name |-> "update_mask", Description |-> "Invalid update mask provided."]>>,
                    "")
      [] e.Code = "NotUnique" -> Response(409, "Conflict", genericUniquenessMsg, <<>>, "")
      [] e.Code = "RecordNotFound" -> Response(404, "NotFound", genericNotFoundMsg, <<>>, "")
      [] OTHER -> InternalError(e, gen)

\* the response for a domain error, by its code
DomainResponse(e, gen) ==
    CASE e.Code \in {"InvalidFieldMask", "EmptyFieldMask"} ->
           Response(400, "InvalidArgument", "Error in provided request",
                    <<[Name |-> "update_mask", Description |-> "Invalid update mask provided."]>>,
                    "")
      [] e.Code = "NotUnique" -> Response(400, "InvalidArgument", genericUniquenessMsg, <<>>, "")
      [] e.Code = "RecordNotFound" -> Response(404, "NotFound", genericNotFoundMsg, <<>>, "")
      [] OTHER -> InternalError(e, gen)

\* the response the API error handler writes for an error; the first case
\* that matches decides
WriteError(e, gen) ==
    IF e.type = "notmatch" THEN Response(404, "NotFound", "Not Found", <<>>, "")
    ELSE IF e.type = "api" THEN Response(e.Status, e.Code, e.Message, SortFields(e.fields), "")
    ELSE IF e.type = "status" /\ e.code = "Unimplemented"
    THEN Response(405, "Unimplemented", e.text, <<>>, "")
    ELSE IF e.type = "Err" THEN DomainResponse(e, gen)
    ELSE InternalError(e, gen)

\* the response for an error of the repository above: HTTP status, code and
\* message
ErrorHandler(e) ==
    LET r == DomainResponse(Err(e.code, "", "", NilError), "")
    IN [Status |-> r.Status, Code |-> r.Code, Message |-> r.Message]

\* ------------------------------------------- repository_host_set_member.go
\* newHostSetForMembers(setId, version): the set row with the bumped version
newHostSetForMembers(setId, version) == [PublicId |-> setId, Version |-> version + 1]

\* set.oplog(op): the metadata of the oplog entry
SetOplog(set, op) == [resourceId |-> set.PublicId, opTypes |-> <<op>>]

createMembers(st, members, fail) ==
    LET r == CreateItems(st, members, fail)
    IN [st |-> r.st, err |-> r.err, msgs |-> r.msgs, steps |-> <<"CreateItems">>]

\* deleteMembers without the check of rowsDeleted against len(members)
deleteMembers_AnyRows(st, members, fail) ==
    LET r == DeleteItems(st, members, fail)
    IN IF r.err # NoErr
       THEN [st |-> r.st, err |-> r.err, msgs |-> <<>>, steps |-> <<"DeleteItems">>]
       ELSE [st |-> r.st, err |-> NoErr, msgs |-> r.msgs, steps |-> <<"DeleteItems">>]

deleteMembers(st, members, fail) ==
    LET r == DeleteItems(st, members, fail)
    IN IF r.err # NoErr
       THEN [st |-> r.st, err |-> r.err, msgs |-> <<>>, steps |-> <<"DeleteItems">>]
       ELSE IF r.rows # Len(members)
       THEN [st |-> r.st, err |-> NewErr("Unknown"), msgs |-> <<>>, steps |-> <<"DeleteItems">>]
       ELSE [st |-> r.st, err |-> NoErr, msgs |-> r.msgs, steps |-> <<"DeleteItems">>]

\* updateVersion, except that the ticket is taken before the version of the
\* set is updated
updateVersion_TicketFirst(st, metadata, msgs, set, version, fail) ==
    LET t == GetTicket(fail)
    IN IF t # NoErr
       THEN [st |-> st, err |-> t, rowsUpdated |-> 0, steps |-> <<"GetTicket">>]
       ELSE LET u == UpdateSetVersion(st, set, version, fail)
            IN IF u.err # NoErr
               THEN [st |-> u.st, err |-> u.err, rowsUpdated |-> u.rows,
                     steps |-> <<"GetTicket", "Update">>]
               ELSE IF u.rows > 1
               THEN [st |-> u.st, err |-> NewErr("MultipleRecords"), rowsUpdated |-> u.rows,
                     steps |-> <<"GetTicket", "Update">>]
               ELSE LET all == Append(msgs, u.msg)
                        w == WriteOplogEntryWith(u.st, metadata, all, fail)
                    IN [st |-> w.st, err |-> w.err, rowsUpdated |-> u.rows,
                        steps |-> <<"GetTicket", "Update", "WriteOplogEntryWith">>]

\* updateVersion(ctx, w, wrapper, metadata, msgs, set, version); steps lists
\* the calls it made of the writer, in the order it made them
updateVersion(st, metadata, msgs, set, version, fail) ==
    LET u == UpdateSetVersion(st, set, version, fail)
    IN IF u.err # NoErr
       THEN [st |-> u.st, err |-> u.err, rowsUpdated |-> u.rows, steps |-> <<"Update">>]
       ELSE IF u.rows > 1
       THEN [st |-> u.st, err |-> NewErr("MultipleRecords"), rowsUpdated |-> u.rows,
             steps |-> <<"Update">>]
       ELSE LET all == Append(msgs, u.msg)
                t == GetTicket(fail)
            IN IF t # NoErr
               THEN [st |-> u.st, err |-> t, rowsUpdated |-> u.rows,
                     steps |-> <<"Update", "GetTicket">>]
               ELSE LET w == WriteOplogEntryWith(u.st, metadata, all, fail)
                    IN [st |-> w.st, err |-> w.err, rowsUpdated |-> u.rows,
                        steps |-> <<"Update", "GetTicket", "WriteOplogEntryWith">>]

getHosts(st, setId, fail) ==
    LET r == SearchWhere(st, setId, fail)
    IN [err |-> r.err, hosts |-> IF r.err = NoErr THEN r.hosts ELSE {},
        steps |-> <<"SearchWhere">>]

\* r.changes(ctx, setId, hostIds)
changes(st, setId, hostIds, fail) ==
    LET q == Query(st, setId, hostIds, fail)
    IN [err |-> q.err, rows |-> IF q.err = NoErr THEN q.rows ELSE <<>>]

\* the host ids of the change rows with the given action, in order
RECURSIVE SelectAction(_, _)
SelectAction(rows, action) ==
    IF rows = <<>> THEN <<>>
    ELSE (IF Head(rows).Action = action THEN <<Head(rows).HostId>> ELSE <<>>)
         \o SelectAction(Tail(rows), action)

\* MemberParams, except that an empty list of host ids is let through
MemberParams_AnyHostIds(scopeId, setId, version, hostIds) ==
    IF scopeId = "" THEN NewErr("MissingScopeId")
    ELSE IF setId = NoId THEN NewErr("MissingSetId")
    ELSE IF version = 0 THEN NewErr("MissingVersion")
    ELSE NoErr

\* the parameter checks that open AddSetMembers and DeleteSetMembers
MemberParams(scopeId, setId, version, hostIds) ==
    IF scopeId = "" THEN NewErr("MissingScopeId")
    ELSE IF setId = NoId THEN NewErr("MissingSetId")
    ELSE IF version = 0 THEN NewErr("MissingVersion")
    ELSE IF Len(hostIds) = 0 THEN NewErr("MissingHostIds")
    ELSE NoErr

\* the parameter checks that open SetSetMembers
SetParams(scopeId, setId, version) ==
    IF scopeId = "" THEN NewErr("MissingScopeId")
    ELSE IF setId = NoId THEN NewErr("MissingSetId")
    ELSE IF version = 0 THEN NewErr("MissingVersion")
    ELSE NoErr

\* r.kms.GetWrapper(ctx, scopeId, kms.KeyPurposeOplog)
GetWrapper(kmsFails) == IF kmsFails THEN WrapStoreErr("kms_failure") ELSE NoErr

\* AfterGetWrapper, except that the error of GetWrapper is left for the
\* transaction to meet
AfterGetWrapper_FailsInTx(c, kmsFails) ==
    LET werr == GetWrapper(kmsFails)
    IN [c EXCEPT !.pc = "tx", !.err = werr]

\* a call after its `wrapper, err := r.kms.GetWrapper(...)` and the check of err
AfterGetWrapper(c, kmsFails) ==
    LET werr == GetWrapper(kmsFails)
    IN IF werr # NoErr
       THEN [c EXCEPT !.pc = "done", !.err = werr, !.count = NoRowsAffected, !.hosts = {}]
       ELSE [c EXCEPT !.pc = "tx"]

\* a call as it is when the function is entered
NewCall(op, scopeId, setId, version, hostIds) ==
    [IdleCall EXCEPT !.op = op, !.scopeId = scopeId, !.setId = setId,
                     !.version = version, !.hostIds = hostIds]

\* a call that has returned
Returned(c, err, count, hosts) ==
    [c EXCEPT !.pc = "done", !.err = err, !.count = count, !.hosts = hosts]

\* a call whose transaction body has run: what the body left in the
\* variables of the function, and the calls it made of the writer and reader
Ran(c, body) ==
    [c EXCEPT !.rowsUpdated = body.rowsUpdated, !.steps = body.steps, !.meta = body.opTypes]

\* AddSetMembers up to the call of r.kms.GetWrapper
AddSetMembersEnter(scopeId, setId, version, hostIds) ==
    LET c == NewCall("AddSetMembers", scopeId, setId, version, hostIds)
        perr == MemberParams(scopeId, setId, version, hostIds)
    IN IF perr # NoErr THEN Returned(c, perr, 0, {})
       ELSE [c EXCEPT !.pc = "kms"]

\* the function passed to DoTx by AddSetMembers
AddSetMembersBody(st, c, fail) ==
    LET set == newHostSetForMembers(c.setId, c.version)
        metadata == SetOplog(set, "CREATE")
        cm == createMembers(st, c.hostIds, fail)
    IN IF cm.err # NoErr
       THEN [st |-> cm.st, err |-> cm.err, hosts |-> {}, rowsUpdated |-> 0, steps |-> cm.steps,
             opTypes |-> metadata.opTypes]
       ELSE LET uv == updateVersion(cm.st, metadata, cm.msgs, set, c.version, fail)
            IN IF uv.err # NoErr
               THEN [st |-> uv.st, err |-> uv.err, hosts |-> {}, rowsUpdated |-> uv.rowsUpdated,
                     steps |-> cm.steps \o uv.steps, opTypes |-> metadata.opTypes]
               ELSE LET gh == getHosts(uv.st, c.setId, fail)
                    IN [st |-> uv.st, err |-> gh.err, hosts |-> gh.hosts,
                        rowsUpdated |-> uv.rowsUpdated,
                        steps |-> cm.steps \o uv.steps \o gh.steps,
                        opTypes |-> metadata.opTypes]

\* AddSetMembers from writer.DoTx to its return: the store and the call after
AddSetMembersDoTx(st, c, fail) ==
    LET body == AddSetMembersBody(st, c, fail)
    IN [db |-> DoTx(st, body),
        call |-> IF body.err # NoErr
                 THEN Returned(Ran(c, body), body.err, 0, {})
                 ELSE Returned(Ran(c, body), NoErr, 0, body.hosts)]

\* DeleteSetMembers up to the call of r.kms.GetWrapper
DeleteSetMembersEnter(scopeId, setId, version, hostIds) ==
    LET c == NewCall("DeleteSetMembers", scopeId, setId, version, hostIds)
        perr == MemberParams(scopeId, setId, version, hostIds)
    IN IF perr # NoErr THEN Returned(c, perr, NoRowsAffected, {})
       ELSE [c EXCEPT !.pc = "kms"]

\* the function passed to DoTx by DeleteSetMembers
DeleteSetMembersBody(st, c, fail) ==
    LET set == newHostSetForMembers(c.setId, c.version)
        metadata == SetOplog(set, "DELETE")
        dm == deleteMembers(st, c.hostIds, fail)
    IN IF dm.err # NoErr
       THEN [st |-> dm.st, err |-> dm.err, rowsUpdated |-> 0, steps |-> dm.steps,
             opTypes |-> metadata.opTypes]
       ELSE LET uv == updateVersion(dm.st, metadata, dm.msgs, set, c.version, fail)
            IN [st |-> uv.st, err |-> uv.err, rowsUpdated |-> uv.rowsUpdated,
                steps |-> dm.steps \o uv.steps, opTypes |-> metadata.opTypes]

\* DeleteSetMembers from writer.DoTx to its return
DeleteSetMembersDoTx(st, c, fail) ==
    LET body == DeleteSetMembersBody(st, c, fail)
    IN [db |-> DoTx(st, body),
        call |-> IF body.err # NoErr
                 THEN Returned(Ran(c, body), body.err, NoRowsAffected, {})
                 ELSE Returned(Ran(c, body), NoErr, Len(c.hostIds), {})]

\* SetSetMembersEnter, except that a call that finds no change goes on to
\* the transaction all the same
SetSetMembersEnter_AlwaysTx(st, scopeId, setId, version, hostIds, readFails) ==
    LET c == NewCall("SetSetMembers", scopeId, setId, version, hostIds)
        perr == SetParams(scopeId, setId, version)
        chg == changes(st, setId, hostIds, IF readFails THEN "read" ELSE "none")
        d == [c EXCEPT !.deletions = SelectAction(chg.rows, "delete"),
                       !.additions = SelectAction(chg.rows, "add"),
                       !.nchanges = Len(chg.rows)]
    IN IF perr # NoErr THEN Returned(c, perr, NoRowsAffected, {})
       ELSE IF chg.err # NoErr THEN Returned(c, chg.err, NoRowsAffected, {})
       ELSE [d EXCEPT !.pc = "kms"]

\* SetSetMembersEnter, except that a call that finds no change compares its
\* version with the set's and reports a stale one
SetSetMembersEnter_ChecksVersion(st, scopeId, setId, version, hostIds, readFails) ==
    LET c == NewCall("SetSetMembers", scopeId, setId, version, hostIds)
        perr == SetParams(scopeId, setId, version)
        chg == changes(st, setId, hostIds, IF readFails THEN "read" ELSE "none")
        d == [c EXCEPT !.deletions = SelectAction(chg.rows, "delete"),
                       !.additions = SelectAction(chg.rows, "add"),
                       !.nchanges = Len(chg.rows)]
    IN IF perr # NoErr THEN Returned(c, perr, NoRowsAffected, {})
       ELSE IF chg.err # NoErr THEN Returned(c, chg.err, NoRowsAffected, {})
       ELSE IF Len(chg.rows) > 0 THEN [d EXCEPT !.pc = "kms"]
       ELSE IF setId = TheSet /\ version # st.setVersion
       THEN Returned(d, NewErr("VersionMismatch"), NoRowsAffected, {})
       ELSE Returned(d, NoErr, Len(chg.rows), {})

\* SetSetMembers up to the call of r.kms.GetWrapper: the parameter checks,
\* the changes query, its partition into deletions and additions, and, when
\* there is no change, the return.
SetSetMembersEnter(st, scopeId, setId, version, hostIds, readFails) ==
    LET c == NewCall("SetSetMembers", scopeId, setId, version, hostIds)
        perr == SetParams(scopeId, setId, version)
        chg == changes(st, setId, hostIds, IF readFails THEN "read" ELSE "none")
        d == [c EXCEPT !.deletions = SelectAction(chg.rows, "delete"),
                       !.additions = SelectAction(chg.rows, "add"),
                       !.nchanges = Len(chg.rows)]
    IN IF perr # NoErr THEN Returned(c, perr, NoRowsAffected, {})
       ELSE IF chg.err # NoErr THEN Returned(c, chg.err, NoRowsAffected, {})
       ELSE IF Len(chg.rows) > 0 THEN [d EXCEPT !.pc = "kms"]
       ELSE Returned(d, NoErr, Len(chg.rows), {})

\* SetSetMembersBody, except that the additions are made, and tagged, before
\* the deletions
SetSetMembersBody_CreateFirst(st, c, fail) ==
    LET set == newHostSetForMembers(c.setId, c.version)
        metadata0 == SetOplog(set, "UPDATE")
        dm == IF Len(c.additions) > 0 THEN createMembers(st, c.additions, fail)
              ELSE [st |-> st, err |-> NoErr, msgs |-> <<>>, steps |-> <<>>]
        metadata1 == IF Len(c.additions) > 0
                     THEN [metadata0 EXCEPT !.opTypes = Append(@, "CREATE")]
                     ELSE metadata0
    IN IF dm.err # NoErr
       THEN [st |-> dm.st, err |-> dm.err, hosts |-> {}, rowsUpdated |-> 0, steps |-> dm.steps,
             opTypes |-> metadata0.opTypes]
       ELSE LET cm == IF Len(c.deletions) > 0 THEN deleteMembers(dm.st, c.deletions, fail)
                      ELSE [st |-> dm.st, err |-> NoErr, msgs |-> <<>>, steps |-> <<>>]
                metadata2 == IF Len(c.deletions) > 0
                             THEN [metadata1 EXCEPT !.opTypes = Append(@, "DELETE")]
                             ELSE metadata1
            IN IF cm.err # NoErr
               THEN [st |-> cm.st, err |-> cm.err, hosts |-> {}, rowsUpdated |-> 0,
                     steps |-> dm.steps \o cm.steps, opTypes |-> metadata1.opTypes]
               ELSE LET uv == updateVersion(cm.st, metadata2, dm.msgs \o cm.msgs, set,
                                            c.version, fail)
                    IN IF uv.err # NoErr
                       THEN [st |-> uv.st, err |-> uv.err, hosts |-> {},
                             rowsUpdated |-> uv.rowsUpdated,
                             steps |-> dm.steps \o cm.steps \o uv.steps,
                             opTypes |-> metadata2.opTypes]
                       ELSE LET gh == getHosts(uv.st, c.setId, fail)
                            IN [st |-> uv.st, err |-> gh.err, hosts |-> gh.hosts,
                                rowsUpdated |-> uv.rowsUpdated,
                                steps |-> dm.steps \o cm.steps \o uv.steps \o gh.steps,
                                opTypes |-> metadata2.opTypes]

\* SetSetMembersBody, except that the metadata of the oplog entry is made
\* once, before DoTx, and every run of the body appends its tags to it
SetSetMembersBody_MetadataOutside(st, c, fail) ==
    LET set == newHostSetForMembers(c.setId, c.version)
        metadata0 == IF c.meta = <<>> THEN SetOplog(set, "UPDATE")
                     ELSE [SetOplog(set, "UPDATE") EXCEPT !.opTypes = c.meta]
        dm == IF Len(c.deletions) > 0 THEN deleteMembers(st, c.deletions, fail)
              ELSE [st |-> st, err |-> NoErr, msgs |-> <<>>, steps |-> <<>>]
        metadata1 == IF Len(c.deletions) > 0
                     THEN [metadata0 EXCEPT !.opTypes = Append(@, "DELETE")]
                     ELSE metadata0
    IN IF dm.err # NoErr
       THEN [st |-> dm.st, err |-> dm.err, hosts |-> {}, rowsUpdated |-> 0, steps |-> dm.steps,
             opTypes |-> metadata0.opTypes]
       ELSE LET cm == IF Len(c.additions) > 0 THEN createMembers(dm.st, c.additions, fail)
                      ELSE [st |-> dm.st, err |-> NoErr, msgs |-> <<>>, steps |-> <<>>]
                metadata2 == IF Len(c.additions) > 0
                             THEN [metadata1 EXCEPT !.opTypes = Append(@, "CREATE")]
                             ELSE metadata1
            IN IF cm.err # NoErr
               THEN [st |-> cm.st, err |-> cm.err, hosts |-> {}, rowsUpdated |-> 0,
                     steps |-> dm.steps \o cm.steps, opTypes |-> metadata1.opTypes]
               ELSE LET uv == updateVersion(cm.st, metadata2, dm.msgs \o cm.msgs, set,
                                            c.version, fail)
                    IN IF uv.err # NoErr
                       THEN [st |-> uv.st, err |-> uv.err, hosts |-> {},
                             rowsUpdated |-> uv.rowsUpdated,
                             steps |-> dm.steps \o cm.steps \o uv.steps,
                             opTypes |-> metadata2.opTypes]
                       ELSE LET gh == getHosts(uv.st, c.setId, fail)
                            IN [st |-> uv.st, err |-> gh.err, hosts |-> gh.hosts,
                                rowsUpdated |-> uv.rowsUpdated,
                                steps |-> dm.steps \o cm.steps \o uv.steps \o gh.steps,
                                opTypes |-> metadata2.opTypes]

\* the function passed to DoTx by SetSetMembers
SetSetMembersBody(st, c, fail) ==
    LET set == newHostSetForMembers(c.setId, c.version)
        metadata0 == SetOplog(set, "UPDATE")
        dm == IF Len(c.deletions) > 0 THEN deleteMembers(st, c.deletions, fail)
              ELSE [st |-> st, err |-> NoErr, msgs |-> <<>>, steps |-> <<>>]
        metadata1 == IF Len(c.deletions) > 0
                     THEN [metadata0 EXCEPT !.opTypes = Append(@, "DELETE")]
                     ELSE metadata0
    IN IF dm.err # NoErr
       THEN [st |-> dm.st, err |-> dm.err, hosts |-> {}, rowsUpdated |-> 0, steps |-> dm.steps,
             opTypes |-> metadata0.opTypes]
       ELSE LET cm == IF Len(c.additions) > 0 THEN createMembers(dm.st, c.additions, fail)
                      ELSE [st |-> dm.st, err |-> NoErr, msgs |-> <<>>, steps |-> <<>>]
                metadata2 == IF Len(c.additions) > 0
                             THEN [metadata1 EXCEPT !.opTypes = Append(@, "CREATE")]
                             ELSE metadata1
            IN IF cm.err # NoErr
               THEN [st |-> cm.st, err |-> cm.err, hosts |-> {}, rowsUpdated |-> 0,
                     steps |-> dm.steps \o cm.steps, opTypes |-> metadata1.opTypes]
               ELSE LET uv == updateVersion(cm.st, metadata2, dm.msgs \o cm.msgs, set,
                                            c.version, fail)
                    IN IF uv.err # NoErr
                       THEN [st |-> uv.st, err |-> uv.err, hosts |-> {},
                             rowsUpdated |-> uv.rowsUpdated,
                             steps |-> dm.steps \o cm.steps \o uv.steps,
                             opTypes |-> metadata2.opTypes]
                       ELSE LET gh == getHosts(uv.st, c.setId, fail)
                            IN [st |-> uv.st, err |-> gh.err, hosts |-> gh.hosts,
                                rowsUpdated |-> uv.rowsUpdated,
                                steps |-> dm.steps \o cm.steps \o uv.steps \o gh.steps,
                                opTypes |-> metadata2.opTypes]

\* SetSetMembersDoTx, except that the body writes through the repository's
\* own writer: what it wrote before it failed stays
SetSetMembersDoTx_NoRollback(st, c, fail) ==
    LET body == SetSetMembersBody(st, c, fail)
    IN [db |-> body.st,
        call |-> IF body.err # NoErr
                 THEN Returned(Ran(c, body), body.err, NoRowsAffected, {})
                 ELSE Returned(Ran(c, body), NoErr, c.nchanges, body.hosts)]

\* SetSetMembersDoTx, except that the count returned is len(hosts)
SetSetMembersDoTx_CountsHosts(st, c, fail) ==
    LET body == SetSetMembersBody(st, c, fail)
    IN [db |-> DoTx(st, body),
        call |-> IF body.err # NoErr
                 THEN Returned(Ran(c, body), body.err, NoRowsAffected, {})
                 ELSE Returned(Ran(c, body), NoErr,
                               Cardinality(body.hosts), body.hosts)]

\* SetSetMembers from writer.DoTx to its return
SetSetMembersDoTx(st, c, fail) ==
    LET body == SetSetMembersBody(st, c, fail)
    IN [db |-> DoTx(st, body),
        call |-> IF body.err # NoErr
                 THEN Returned(Ran(c, body), body.err, NoRowsAffected, {})
                 ELSE Returned(Ran(c, body), NoErr, c.nchanges, body.hosts)]

\* ------------------------------------- catalogs (package static repository)
\* a call of a catalog or host function as it is when the function is entered;
\* ent is the caller's *HostCatalog or *Host, arg its value when the call was
\* made
NewEntCall(op, scopeId, ent, version, mask, optId, publicId) ==
    [IdleCall EXCEPT !.op = op, !.scopeId = scopeId, !.arg = ent, !.ent = ent,
                     !.version = version,
                     !.mask = mask, !.optId = optId, !.publicId = publicId]

\* a catalog or host call that has returned (entity, count, error)
ReturnedEnt(c, ret, count, err) ==
    [c EXCEPT !.pc = "done", !.ret = ret, !.count = count, !.err = err]

\* db.NewPublicId(prefix) gave the id numbered rnd, or failed
newHostCatalogId(rnd, genFails) ==
    IF genFails THEN [id |-> NoId, err |-> WrapStoreErr("new_public_id_failed")]
    ELSE [id |-> PublicId(HostCatalogPrefix, rnd), err |-> NoErr]
newHostId(rnd, genFails) ==
    IF genFails THEN [id |-> NoId, err |-> WrapStoreErr("new_public_id_failed")]
    ELSE [id |-> PublicId(HostPrefix, rnd), err |-> NoErr]

\* CreateCatalog up to the call of r.kms.GetWrapper
CreateCatalogEnter(c, optId, rnd, genFails) ==
    LET k == NewEntCall("CreateCatalog", IF c = NoEnt THEN "" ELSE c.ScopeId, c, 0, <<>>,
                        optId, NoId)
        gen == newHostCatalogId(rnd, genFails)
    IN IF c = NoEnt THEN ReturnedEnt(k, NoEnt, 0, NewErr("InvalidParameter"))
       ELSE IF c.ScopeId = "" THEN ReturnedEnt(k, NoEnt, 0, NewErr("MissingScopeId"))
       ELSE IF c.PublicId # NoId THEN ReturnedEnt(k, NoEnt, 0, NewErr("InvalidParameter"))
       ELSE IF optId # NoId
       THEN IF ~ HasPrefix(optId, HostCatalogPrefix)
            THEN ReturnedEnt(k, NoEnt, 0, NewErr("InvalidParameter"))
            ELSE [k EXCEPT !.pc = "kms", !.loc = [c EXCEPT !.PublicId = optId]]
       ELSE IF gen.err # NoErr THEN ReturnedEnt(k, NoEnt, 0, gen.err)
       ELSE [k EXCEPT !.pc = "kms", !.loc = [c EXCEPT !.PublicId = gen.id]]

\* CreateCatalog from writer.DoTx to its return
CreateCatalogDoTx(st, c, fail) ==
    LET metadata == EntOplog(c.loc, "CREATE")
        body == Create(st, "catalogs", c.loc, metadata, fail)
    IN [db |-> DoTx(st, body),
        call |-> IF body.err # NoErr
                 THEN ReturnedEnt(c, NoEnt, 0, ConvertOrUnknown(body.err))
                 ELSE ReturnedEnt(c, [c.loc EXCEPT !.Version = 1], 0, NoErr)]

\* the field mask loop of UpdateCatalog: the db mask and the null fields, or
\* the error of the first field that is neither name nor description
RECURSIVE CatalogMask(_, _, _, _)
CatalogMask(c, fieldMask, dbMask, nullFields) ==
    IF fieldMask = <<>> THEN [err |-> NoErr, dbMask |-> dbMask, nullFields |-> nullFields]
    ELSE LET f == Head(fieldMask)
         IN IF EqualFold("name", f) /\ c.Name = ""
            THEN CatalogMask(c, Tail(fieldMask), dbMask, nullFields \cup {"name"})
            ELSE IF EqualFold("name", f) /\ c.Name # ""
            THEN CatalogMask(c, Tail(fieldMask), dbMask \cup {"name"}, nullFields)
            ELSE IF EqualFold("description", f) /\ c.Description = ""
            THEN CatalogMask(c, Tail(fieldMask), dbMask, nullFields \cup {"description"})
            ELSE IF EqualFold("description", f) /\ c.Description # ""
            THEN CatalogMask(c, Tail(fieldMask), dbMask \cup {"description"}, nullFields)
            ELSE [err |-> NewErr("InvalidFieldMask"), dbMask |-> {}, nullFields |-> {}]

\* UpdateCatalogEnter without the refusal of a field that is neither name nor
\* description
UpdateCatalogEnter_AnyField(c, version, fieldMask) ==
    LET k == NewEntCall("UpdateCatalog", IF c = NoEnt THEN "" ELSE c.ScopeId, c, version,
                        fieldMask, NoId, NoId)
        allowed == SelectSeq(fieldMask, LAMBDA f : Fold(f) \in {"name", "description"})
        m == CatalogMask(c, allowed, {}, {})
    IN IF c = NoEnt THEN ReturnedEnt(k, NoEnt, NoRowsAffected, NewErr("InvalidParameter"))
       ELSE IF c.PublicId = NoId
       THEN ReturnedEnt(k, NoEnt, NoRowsAffected, NewErr("MissingPublicId"))
       ELSE IF c.ScopeId = ""
       THEN ReturnedEnt(k, NoEnt, NoRowsAffected, NewErr("MissingScopeId"))
       ELSE IF Len(fieldMask) = 0
       THEN ReturnedEnt(k, NoEnt, NoRowsAffected, NewErr("EmptyFieldMask"))
       ELSE [k EXCEPT !.pc = "kms", !.loc = c, !.dbMask = m.dbMask,
                      !.nullFields = m.nullFields]

\* UpdateCatalog up to the call of r.kms.GetWrapper
UpdateCatalogEnter(c, version, fieldMask) ==
    LET k == NewEntCall("UpdateCatalog", IF c = NoEnt THEN "" ELSE c.ScopeId, c, version,
                        fieldMask, NoId, NoId)
        m == CatalogMask(c, fieldMask, {}, {})
    IN IF c = NoEnt THEN ReturnedEnt(k, NoEnt, NoRowsAffected, NewErr("InvalidParameter"))
       ELSE IF c.PublicId = NoId
       THEN ReturnedEnt(k, NoEnt, NoRowsAffected, NewErr("MissingPublicId"))
       ELSE IF c.ScopeId = ""
       THEN ReturnedEnt(k, NoEnt, NoRowsAffected, NewErr("MissingScopeId"))
       ELSE IF Len(fieldMask) = 0
       THEN ReturnedEnt(k, NoEnt, NoRowsAffected, NewErr("EmptyFieldMask"))
       ELSE IF m.err # NoErr THEN ReturnedEnt(k, NoEnt, NoRowsAffected, m.err)
       ELSE [k EXCEPT !.pc = "kms", !.loc = c, !.dbMask = m.dbMask,
                      !.nullFields = m.nullFields]

\* UpdateBody, except that an update that affects no row is an error
UpdateBody_ZeroRowsIsError(st, table, c, fail) ==
    LET metadata == EntOplog(c.loc, "UPDATE")
        u == Update(st, table, c.loc, c.dbMask, c.nullFields, metadata, c.version, fail)
    IN IF u.err = NoErr /\ u.rows > 1
       THEN [st |-> u.st, err |-> NewErr("MultipleRecords"), rows |-> u.rows, row |-> u.row]
       ELSE IF u.err = NoErr /\ u.rows = 0
       THEN [st |-> u.st, err |-> NewErr("VersionMismatch"), rows |-> u.rows, row |-> u.row]
       ELSE u

\* the function UpdateCatalog and UpdateHost pass to DoTx
UpdateBody(st, table, c, fail) ==
    LET metadata == EntOplog(c.loc, "UPDATE")
        u == Update(st, table, c.loc, c.dbMask, c.nullFields, metadata, c.version, fail)
    IN IF u.err = NoErr /\ u.rows > 1
       THEN [st |-> u.st, err |-> NewErr("MultipleRecords"), rows |-> u.rows, row |-> u.row]
       ELSE u

\* UpdateCatalog from writer.DoTx to its return
UpdateCatalogDoTx(st, c, fail) ==
    LET body == UpdateBody(st, "catalogs", c, fail)
        k == [c EXCEPT !.rowsUpdated = body.rows]
    IN [db |-> DoTx(st, body),
        call |-> IF body.err # NoErr
                 THEN ReturnedEnt(k, NoEnt, NoRowsAffected, ConvertOrUnknown(body.err))
                 ELSE ReturnedEnt(k, body.row, body.rows, NoErr)]

\* DeleteCatalog up to the call of r.kms.GetWrapper; the lookup of the
\* catalog is not part of the transaction
DeleteCatalogEnter(st, id, readFails) ==
    LET k == NewEntCall("DeleteCatalog", "", NoEnt, 0, <<>>, NoId, id)
        l == LookupByPublicId(st, "catalogs", id, readFails)
    IN IF id = NoId THEN ReturnedEnt(k, NoEnt, NoRowsAffected, NewErr("MissingPublicId"))
       ELSE IF l.err = NewErr("RecordNotFound")
       THEN ReturnedEnt(k, NoEnt, NoRowsAffected, NoErr)
       ELSE IF l.err # NoErr THEN ReturnedEnt(k, NoEnt, NoRowsAffected, l.err)
       ELSE IF l.row.ScopeId = ""
       THEN ReturnedEnt(k, NoEnt, NoRowsAffected, NewErr("MissingScopeId"))
       ELSE [k EXCEPT !.pc = "kms", !.loc = l.row, !.scopeId = l.row.ScopeId]

\* the function DeleteCatalog and DeleteHost pass to DoTx
DeleteBody(st, table, c, fail) ==
    LET metadata == [resourceId |-> c.publicId, opTypes |-> <<"DELETE">>]
        d == Delete(st, table, c.publicId, metadata, fail)
    IN IF d.err = NoErr /\ d.rows > 1
       THEN [st |-> d.st, err |-> NewErr("MultipleRecords"), rows |-> d.rows]
       ELSE d

\* DeleteCatalog from writer.DoTx to its return
DeleteCatalogDoTx(st, c, fail) ==
    LET body == DeleteBody(st, "catalogs", c, fail)
        k == [c EXCEPT !.rowsDeleted = body.rows]
    IN [db |-> DoTx(st, body),
        call |-> IF body.err # NoErr
                 THEN ReturnedEnt(k, NoEnt, NoRowsAffected, body.err)
                 ELSE ReturnedEnt(k, NoEnt, body.rows, NoErr)]

\* ------------------------------------------------ hosts (repository_host)
\* len(h.Address) < MinHostAddressLength || len(h.Address) > MaxHostAddressLength
BadAddressLength(a) == len(a) < MinHostAddressLength \/ len(a) > MaxHostAddressLength

\* CreateHost up to the call of r.kms.GetWrapper; the address is trimmed in
\* the caller's h, before h is cloned
CreateHostEnter(scopeId, h, optId, rnd, genFails) ==
    LET k == NewEntCall("CreateHost", scopeId, h, 0, <<>>, optId, NoId)
        t == [h EXCEPT !.Address = TrimSpace(h.Address)]
        kt == [k EXCEPT !.ent = t]
        gen == newHostId(rnd, genFails)
    IN IF h = NoEnt THEN ReturnedEnt(k, NoEnt, 0, NewErr("InvalidParameter"))
       ELSE IF h.CatalogId = NoId THEN ReturnedEnt(k, NoEnt, 0, NewErr("MissingCatalogId"))
       ELSE IF h.PublicId # NoId THEN ReturnedEnt(k, NoEnt, 0, NewErr("InvalidParameter"))
       ELSE IF scopeId = "" THEN ReturnedEnt(k, NoEnt, 0, NewErr("MissingScopeId"))
       ELSE IF BadAddressLength(t.Address)
       THEN ReturnedEnt(kt, NoEnt, 0, NewErr("InvalidAddress"))
       ELSE IF optId # NoId
       THEN IF ~ HasPrefix(optId, HostPrefix)
            THEN ReturnedEnt(kt, NoEnt, 0, NewErr("InvalidParameter"))
            ELSE [kt EXCEPT !.pc = "kms", !.loc = [t EXCEPT !.PublicId = optId]]
       ELSE IF gen.err # NoErr THEN ReturnedEnt(kt, NoEnt, 0, gen.err)
       ELSE [kt EXCEPT !.pc = "kms", !.loc = [t EXCEPT !.PublicId = gen.id]]

\* CreateHost from writer.DoTx to its return
CreateHostDoTx(st, c, fail) ==
    LET metadata == EntOplog(c.loc, "CREATE")
        body == Create(st, "hosts", c.loc, metadata, fail)
    IN [db |-> DoTx(st, body),
        call |-> IF body.err # NoErr
                 THEN ReturnedEnt(c, NoEnt, 0, ConvertOrUnknown(body.err))
                 ELSE ReturnedEnt(c, [c.loc EXCEPT !.Version = 1], 0, NoErr)]

\* the field mask loop of UpdateHost: h with its address trimmed if the mask
\* names it, or the error of the first field that is refused
RECURSIVE HostMask(_, _)
HostMask(h, fieldMaskPaths) ==
    IF fieldMaskPaths = <<>> THEN [err |-> NoErr, h |-> h]
    ELSE LET f == Head(fieldMaskPaths)
             t == [h EXCEPT !.Address = TrimSpace(h.Address)]
         IN IF EqualFold("Name", f) THEN HostMask(h, Tail(fieldMaskPaths))
            ELSE IF EqualFold("Description", f) THEN HostMask(h, Tail(fieldMaskPaths))
            ELSE IF EqualFold("Address", f)
            THEN IF BadAddressLength(t.Address)
                 THEN [err |-> NewErr("InvalidAddress"), h |-> t]
                 ELSE HostMask(t, Tail(fieldMaskPaths))
            ELSE [err |-> NewErr("InvalidFieldMask"), h |-> h]

\* dbcommon.BuildUpdatePaths(fieldValues, fieldMask, nil): the fields of the
\* mask with a value, and those with the zero value
BuildUpdatePaths(h, fieldMaskPaths) ==
    LET named == {f \in {"name", "description", "address"} :
                     \E i \in 1..Len(fieldMaskPaths) : EqualFold(fieldMaskPaths[i], f)}
    IN [dbMask |-> {f \in named : Field(h, f) # ""},
        nullFields |-> {f \in named : Field(h, f) = ""}]

\* UpdateHost up to the call of r.kms.GetWrapper
UpdateHostEnter(scopeId, h, version, fieldMaskPaths) ==
    LET k == NewEntCall("UpdateHost", scopeId, h, version, fieldMaskPaths, NoId, NoId)
        m == HostMask(h, fieldMaskPaths)
        km == [k EXCEPT !.ent = m.h]
        b == BuildUpdatePaths(m.h, fieldMaskPaths)
    IN IF h = NoEnt THEN ReturnedEnt(k, NoEnt, NoRowsAffected, NewErr("InvalidParameter"))
       ELSE IF h.PublicId = NoId
       THEN ReturnedEnt(k, NoEnt, NoRowsAffected, NewErr("MissingPublicId"))
       ELSE IF version = 0
       THEN ReturnedEnt(k, NoEnt, NoRowsAffected, NewErr("MissingVersion"))
       ELSE IF scopeId = ""
       THEN ReturnedEnt(k, NoEnt, NoRowsAffected, NewErr("MissingScopeId"))
       ELSE IF m.err # NoErr THEN ReturnedEnt(km, NoEnt, NoRowsAffected, m.err)
       ELSE IF b.dbMask = {} /\ b.nullFields = {}
       THEN ReturnedEnt(km, NoEnt, NoRowsAffected, NewErr("EmptyFieldMask"))
       ELSE [km EXCEPT !.pc = "kms", !.loc = m.h, !.dbMask = b.dbMask,
                       !.nullFields = b.nullFields]

\* UpdateHost from writer.DoTx to its return
UpdateHostDoTx(st, c, fail) ==
    LET body == UpdateBody(st, "hosts", c, fail)
        k == [c EXCEPT !.rowsUpdated = body.rows]
    IN [db |-> DoTx(st, body),
        call |-> IF body.err # NoErr
                 THEN ReturnedEnt(k, NoEnt, NoRowsAffected, ConvertOrUnknown(body.err))
                 ELSE ReturnedEnt(k, body.row, body.rows, NoErr)]

\* DeleteHost up to the call of r.kms.GetWrapper
DeleteHostEnter(scopeId, publicId) ==
    LET k == NewEntCall("DeleteHost", scopeId, NoEnt, 0, <<>>, NoId, publicId)
    IN IF publicId = NoId
       THEN ReturnedEnt(k, NoEnt, NoRowsAffected, NewErr("MissingPublicId"))
       ELSE [k EXCEPT !.pc = "kms"]

\* DeleteHost from writer.DoTx to its return
DeleteHostDoTx(st, c, fail) ==
    LET body == DeleteBody(st, "hosts", c, fail)
        k == [c EXCEPT !.rowsDeleted = body.rows]
    IN [db |-> DoTx(st, body),
        call |-> IF body.err # NoErr
                 THEN ReturnedEnt(k, NoEnt, NoRowsAffected, body.err)
                 ELSE ReturnedEnt(k, NoEnt, body.rows, NoErr)]

\* ------------------------------------------------------ lookups and lists
\* LookupCatalog, LookupHost, except that a row that is not found is an error
LookupCall_NotFoundIsError(op, st, id, readFails) ==
    LET k == NewEntCall(op, "", NoEnt, 0, <<>>, NoId, id)
        l == LookupByPublicId(st, IF op = "LookupCatalog" THEN "catalogs" ELSE "hosts",
                              id, readFails)
    IN IF id = NoId THEN ReturnedEnt(k, NoEnt, 0, NewErr("MissingPublicId"))
       ELSE IF l.err # NoErr THEN ReturnedEnt(k, NoEnt, 0, l.err)
       ELSE ReturnedEnt(k, l.row, 0, NoErr)

\* LookupCatalog(ctx, id) and LookupHost(ctx, publicId): the row of the id,
\* nil, nil if there is none
LookupCall(op, st, id, readFails) ==
    LET k == NewEntCall(op, "", NoEnt, 0, <<>>, NoId, id)
        l == LookupByPublicId(st, IF op = "LookupCatalog" THEN "catalogs" ELSE "hosts",
                              id, readFails)
    IN IF id = NoId THEN ReturnedEnt(k, NoEnt, 0, NewErr("MissingPublicId"))
       ELSE IF l.err = NewErr("RecordNotFound") THEN ReturnedEnt(k, NoEnt, 0, NoErr)
       ELSE IF l.err # NoErr THEN ReturnedEnt(k, NoEnt, 0, l.err)
       ELSE ReturnedEnt(k, l.row, 0, NoErr)

\* ListCatalogs(ctx, scopeId) and ListHosts(ctx, catalogId): the rows of the
\* scope or of the catalog
ListCall(op, st, scopeId, catalogId, readFails) ==
    LET k == NewEntCall(op, scopeId, NoEnt, 0, <<>>, NoId, catalogId)
        rows == IF op = "ListCatalogs" THEN {r \in st.catalogs : r.ScopeId = scopeId}
                ELSE {r \in st.hosts : r.CatalogId = catalogId}
    IN IF op = "ListCatalogs" /\ scopeId = ""
       THEN ReturnedEnt(k, NoEnt, 0, NewErr("MissingScopeId"))
       ELSE IF op = "ListHosts" /\ catalogId = NoId
       THEN ReturnedEnt(k, NoEnt, 0, NewErr("MissingCatalogId"))
       ELSE IF readFails THEN ReturnedEnt(k, NoEnt, 0, WrapStoreErr("read_failed"))
       ELSE [ReturnedEnt(k, NoEnt, 0, NoErr) EXCEPT !.list = rows]

\* ----------------------------------------------------------------- actions
\* The store holds one catalog with two hosts and one host set without
\* members, all at version 1 and with no name and no description (NULL), and
\* an empty oplog.
InitDb ==
    [setVersion |-> 1, members |-> {}, oplog |-> <<>>,
     catalogs |-> {Catalog(TheCatalog, "o_1", "", "", 1)},
     hosts |-> {Host(PublicId(HostPrefix, n), TheCatalog, "", "", "127.0.0.1", 1) : n \in HostIds},
     nulls |-> {NullMark("catalogs", TheCatalog, f) : f \in Nullable}
               \cup {NullMark("hosts", PublicId(HostPrefix, n), f) : n \in HostIds, f \in Nullable}]

Init ==
    /\ db = InitDb
    /\ calls = [p \in Procs |-> IdleCall]
    /\ ev = NoEv

CanEnter(p) ==
    /\ calls[p].pc \in {"idle", "done"}
    /\ Len(db.oplog) < MaxOplog

\* A caller enters one of the three functions with arguments drawn from the
\* given sets; reads are the outcomes the changes query may have (TRUE: it
\* fails).
AddSetMembers(p, scopes, sets, versions, lists) ==
    /\ CanEnter(p)
    /\ \E scopeId \in scopes, setId \in sets, version \in versions, hostIds \in lists :
          calls' = [calls EXCEPT ![p] =
                        Began(AddSetMembersEnter(scopeId, setId, version, hostIds),
                              Len(db.oplog))]
    /\ UNCHANGED db
    /\ UNCHANGED ev

DeleteSetMembers(p, scopes, sets, versions, lists) ==
    /\ CanEnter(p)
    /\ \E scopeId \in scopes, setId \in sets, version \in versions, hostIds \in lists :
          calls' = [calls EXCEPT ![p] =
                        Began(DeleteSetMembersEnter(scopeId, setId, version, hostIds),
                              Len(db.oplog))]
    /\ UNCHANGED db
    /\ UNCHANGED ev

SetSetMembers(p, scopes, sets, versions, lists, reads) ==
    /\ CanEnter(p)
    /\ \E scopeId \in scopes, setId \in sets, version \in versions,
          hostIds \in lists, readFails \in reads :
          calls' = [calls EXCEPT ![p] =
                        Began(SetSetMembersEnter(db, scopeId, setId, version, hostIds,
                                                 readFails),
                              Len(db.oplog))]
    /\ UNCHANGED db
    /\ UNCHANGED ev

\* The call resolves the oplog wrapper of its scope; kms are the outcomes
\* the key manager may have (TRUE: it fails).
ResolveWrapper(p, kms) ==
    /\ calls[p].pc = "kms"
    /\ \E kmsFails \in kms :
          calls' = [calls EXCEPT ![p] = AfterGetWrapper(calls[p], kmsFails)]
    /\ UNCHANGED db
    /\ UNCHANGED ev

\* the call after a run of the body that DoTx rolls back: what the body,
\* which got as far as the fault, left in the variables of the function that
\* the closure assigns and in the metadata it worked on, and the error it
\* returned to DoTx
FailedRun(st, c, fail) ==
    LET commitFails == fail = CommitFault
    IN IF c.op = "AddSetMembers"
       THEN LET body == AddSetMembersBody(st, c, fail)
            IN [c EXCEPT !.meta = body.opTypes, !.txErr = RunErr(body.err, commitFails)]
       ELSE IF c.op = "DeleteSetMembers"
       THEN LET body == DeleteSetMembersBody(st, c, fail)
            IN [c EXCEPT !.meta = body.opTypes, !.txErr = RunErr(body.err, commitFails)]
       ELSE IF c.op = "SetSetMembers"
       THEN LET body == SetSetMembersBody(st, c, fail)
            IN [c EXCEPT !.meta = body.opTypes, !.txErr = RunErr(body.err, commitFails)]
       ELSE IF c.op = "UpdateCatalog"
       THEN LET body == UpdateBody(st, "catalogs", c, fail)
            IN [c EXCEPT !.rowsUpdated = body.rows, !.txErr = RunErr(body.err, commitFails)]
       ELSE IF c.op = "UpdateHost"
       THEN LET body == UpdateBody(st, "hosts", c, fail)
            IN [c EXCEPT !.rowsUpdated = body.rows, !.txErr = RunErr(body.err, commitFails)]
       ELSE IF c.op = "DeleteCatalog"
       THEN LET body == DeleteBody(st, "catalogs", c, fail)
            IN [c EXCEPT !.rowsDeleted = body.rows, !.txErr = RunErr(body.err, commitFails)]
       ELSE IF c.op = "DeleteHost"
       THEN LET body == DeleteBody(st, "hosts", c, fail)
            IN [c EXCEPT !.rowsDeleted = body.rows, !.txErr = RunErr(body.err, commitFails)]
       ELSE IF c.op = "CreateCatalog"
       THEN [c EXCEPT !.txErr = RunErr(Create(st, "catalogs", c.loc, EntOplog(c.loc, "CREATE"),
                                              fail).err, commitFails)]
       ELSE [c EXCEPT !.txErr = RunErr(Create(st, "hosts", c.loc, EntOplog(c.loc, "CREATE"),
                                              fail).err, commitFails)]

\* DoTx runs the body under a fault of the store; the body returns the error
\* of the statement that failed (or its own MultipleRecords, or none, and
\* then the commit may fail), DoTx rolls the transaction back and, when the
\* error of this run is one after which it retries and the budget is not
\* used up, will run the body again.
TxRetry(p) ==
    /\ calls[p].pc = "tx"
    /\ \E fail \in Faults :
          \E run \in {FailedRun(db, calls[p], fail)} :
              /\ DoTxRetries(calls[p].retries, run.txErr)
              /\ calls' = [calls EXCEPT ![p] = [run EXCEPT !.retries = @ + 1]]
    /\ UNCHANGED db
    /\ UNCHANGED ev

\* DoTx runs the body to its end (committed, or failed and rolled back) and
\* the call returns; fails are the faults the store may show in that run.
AddSetMembersTx(p, fails) ==
    /\ calls[p].pc = "tx" /\ calls[p].op = "AddSetMembers"
    /\ \E fail \in fails :
          \E r \in {AddSetMembersDoTx(db, calls[p], fail)} :
             db' = r.db /\ calls' = [calls EXCEPT ![p] = Ended(r.call, Len(r.db.oplog))]
    /\ UNCHANGED ev

DeleteSetMembersTx(p, fails) ==
    /\ calls[p].pc = "tx" /\ calls[p].op = "DeleteSetMembers"
    /\ \E fail \in fails :
          \E r \in {DeleteSetMembersDoTx(db, calls[p], fail)} :
             db' = r.db /\ calls' = [calls EXCEPT ![p] = Ended(r.call, Len(r.db.oplog))]
    /\ UNCHANGED ev

SetSetMembersTx(p, fails) ==
    /\ calls[p].pc = "tx" /\ calls[p].op = "SetSetMembers"
    /\ \E fail \in fails :
          \E r \in {SetSetMembersDoTx(db, calls[p], fail)} :
             db' = r.db /\ calls' = [calls EXCEPT ![p] = Ended(r.call, Len(r.db.oplog))]
    /\ UNCHANGED ev

\* A caller enters one of the catalog or host functions with one of the
\* given records of arguments; rnd is the number of the id db.NewPublicId
\* gives, genFails and readFails the outcome of the id generator and of the
\* lookup (TRUE: it fails).
CreateCatalog(p, args) ==
    /\ CanEnter(p)
    /\ \E a \in args :
          calls' = [calls EXCEPT ![p] =
                        Began(CreateCatalogEnter(a.c, a.optId, a.rnd, a.genFails),
                              Len(db.oplog))]
    /\ UNCHANGED db
    /\ UNCHANGED ev

UpdateCatalog(p, args) ==
    /\ CanEnter(p)
    /\ \E a \in args :
          calls' = [calls EXCEPT ![p] =
                        Began(UpdateCatalogEnter(a.c, a.version, a.fieldMask), Len(db.oplog))]
    /\ UNCHANGED db
    /\ UNCHANGED ev

DeleteCatalog(p, args) ==
    /\ CanEnter(p)
    /\ \E a \in args :
          calls' = [calls EXCEPT ![p] =
                        Began(DeleteCatalogEnter(db, a.id, a.readFails), Len(db.oplog))]
    /\ UNCHANGED db
    /\ UNCHANGED ev

CreateHost(p, args) ==
    /\ CanEnter(p)
    /\ \E a \in args :
          calls' = [calls EXCEPT ![p] =
                        Began(CreateHostEnter(a.scopeId, a.h, a.optId, a.rnd, a.genFails),
                              Len(db.oplog))]
    /\ UNCHANGED db
    /\ UNCHANGED ev

UpdateHost(p, args) ==
    /\ CanEnter(p)
    /\ \E a \in args :
          calls' = [calls EXCEPT ![p] =
                        Began(UpdateHostEnter(a.scopeId, a.h, a.version, a.fieldMaskPaths),
                              Len(db.oplog))]
    /\ UNCHANGED db
    /\ UNCHANGED ev

DeleteHost(p, args) ==
    /\ CanEnter(p)
    /\ \E a \in args :
          calls' = [calls EXCEPT ![p] =
                        Began(DeleteHostEnter(a.scopeId, a.publicId), Len(db.oplog))]
    /\ UNCHANGED db
    /\ UNCHANGED ev

\* A caller looks a catalog or a host up, or lists the catalogs of a scope or
\* the hosts of a catalog; reads are the outcomes the reader may have (TRUE:
\* it fails).
LookupCatalog(p, ids, reads) ==
    /\ CanEnter(p)
    /\ \E id \in ids, readFails \in reads :
          calls' = [calls EXCEPT ![p] =
                        Began(LookupCall("LookupCatalog", db, id, readFails), Len(db.oplog))]
    /\ UNCHANGED db
    /\ UNCHANGED ev

LookupHost(p, ids, reads) ==
    /\ CanEnter(p)
    /\ \E id \in ids, readFails \in reads :
          calls' = [calls EXCEPT ![p] =
                        Began(LookupCall("LookupHost", db, id, readFails), Len(db.oplog))]
    /\ UNCHANGED db
    /\ UNCHANGED ev

ListCatalogs(p, scopes, reads) ==
    /\ CanEnter(p)
    /\ \E scopeId \in scopes, readFails \in reads :
          calls' = [calls EXCEPT ![p] =
                        Began(ListCall("ListCatalogs", db, scopeId, NoId, readFails),
                              Len(db.oplog))]
    /\ UNCHANGED db
    /\ UNCHANGED ev

ListHosts(p, catalogIds, reads) ==
    /\ CanEnter(p)
    /\ \E catalogId \in catalogIds, readFails \in reads :
          calls' = [calls EXCEPT ![p] =
                        Began(ListCall("ListHosts", db, "", catalogId, readFails),
                              Len(db.oplog))]
    /\ UNCHANGED db
    /\ UNCHANGED ev

CreateCatalogTx(p, fails) ==
    /\ calls[p].pc = "tx" /\ calls[p].op = "CreateCatalog"
    /\ \E fail \in fails :
          \E r \in {CreateCatalogDoTx(db, calls[p], fail)} :
             db' = r.db /\ calls' = [calls EXCEPT ![p] = Ended(r.call, Len(r.db.oplog))]
    /\ UNCHANGED ev

UpdateCatalogTx(p, fails) ==
    /\ calls[p].pc = "tx" /\ calls[p].op = "UpdateCatalog"
    /\ \E fail \in fails :
          \E r \in {UpdateCatalogDoTx(db, calls[p], fail)} :
             db' = r.db /\ calls' = [calls EXCEPT ![p] = Ended(r.call, Len(r.db.oplog))]
    /\ UNCHANGED ev

DeleteCatalogTx(p, fails) ==
    /\ calls[p].pc = "tx" /\ calls[p].op = "DeleteCatalog"
    /\ \E fail \in fails :
          \E r \in {DeleteCatalogDoTx(db, calls[p], fail)} :
             db' = r.db /\ calls' = [calls EXCEPT ![p] = Ended(r.call, Len(r.db.oplog))]
    /\ UNCHANGED ev

CreateHostTx(p, fails) ==
    /\ calls[p].pc = "tx" /\ calls[p].op = "CreateHost"
    /\ \E fail \in fails :
          \E r \in {CreateHostDoTx(db, calls[p], fail)} :
             db' = r.db /\ calls' = [calls EXCEPT ![p] = Ended(r.call, Len(r.db.oplog))]
    /\ UNCHANGED ev

UpdateHostTx(p, fails) ==
    /\ calls[p].pc = "tx" /\ calls[p].op = "UpdateHost"
    /\ \E fail \in fails :
          \E r \in {UpdateHostDoTx(db, calls[p], fail)} :
             db' = r.db /\ calls' = [calls EXCEPT ![p] = Ended(r.call, Len(r.db.oplog))]
    /\ UNCHANGED ev

DeleteHostTx(p, fails) ==
    /\ calls[p].pc = "tx" /\ calls[p].op = "DeleteHost"
    /\ \E fail \in fails :
          \E r \in {DeleteHostDoTx(db, calls[p], fail)} :
             db' = r.db /\ calls' = [calls EXCEPT ![p] = Ended(r.call, Len(r.db.oplog))]
    /\ UNCHANGED ev

\* ---------------------------------------------------------- specifications
\* hostIds lists without repetition, in increasing order
HostIdSets == {SortedSeq(S) : S \in SUBSET HostIds} \cap HostIdLists
\* the versions a caller that has read the set may hold: v - 1, v, v + 1
NearVersions == {v \in Versions : v >= 1 /\ v >= db.setVersion - 1 /\ v <= db.setVersion + 1}

\* Concurrent callers of the membership functions with well-formed
\* arguments; the store and the key manager show no fault of their own.
\* the lists of host ids that name a host
SomeHostIds == HostIdSets \ {<<>>}
Next ==
    \E p \in Procs :
        \/ AddSetMembers(p, {"o_1"}, {TheSet}, NearVersions, SomeHostIds)
        \/ DeleteSetMembers(p, {"o_1"}, {TheSet}, NearVersions, SomeHostIds)
        \/ SetSetMembers(p, {"o_1"}, {TheSet}, NearVersions, HostIdSets, {FALSE})
        \/ ResolveWrapper(p, {FALSE})
        \/ AddSetMembersTx(p, {"none"})
        \/ DeleteSetMembersTx(p, {"none"})
        \/ SetSetMembersTx(p, {"none"})
Spec == Init /\ [][Next]_vars

\* One caller, one call after the other, with any fault of the store or the
\* key manager: calls with a scope and the set, any list of host ids and a
\* version near the stored one, and calls on the one list of host 1 with any
\* scope (none included), set (none included) and version (0: none given).
SeqVersions == {0, db.setVersion}
NextSeq ==
    \/ AddSetMembers(1, {"o_1"}, {TheSet}, NearVersions, HostIdLists)
    \/ AddSetMembers(1, ScopeIds, SetIds, SeqVersions, {<<1>>})
    \/ DeleteSetMembers(1, {"o_1"}, {TheSet}, NearVersions, HostIdLists)
    \/ DeleteSetMembers(1, ScopeIds, SetIds, SeqVersions, {<<1>>})
    \/ SetSetMembers(1, {"o_1"}, {TheSet}, NearVersions, HostIdLists, {FALSE})
    \/ SetSetMembers(1, ScopeIds, SetIds, SeqVersions, {<<1>>}, BOOLEAN)
    \/ ResolveWrapper(1, BOOLEAN)
    \/ TxRetry(1)
    \/ AddSetMembersTx(1, FailPoints)
    \/ DeleteSetMembersTx(1, FailPoints)
    \/ SetSetMembersTx(1, FailPoints)
SpecSeq == Init /\ [][NextSeq]_vars

\* One caller of the catalog and host functions, one call after the other,
\* with any fault of the store, the key manager and the id generator.  The
\* arguments are the well-formed ones over the ids, names, addresses, field
\* masks and versions below, and, for each parameter check, arguments that
\* fail it.
OtherCatalog == PublicId(HostCatalogPrefix, 2)
ThirdCatalog == PublicId(HostCatalogPrefix, 3)
FirstHost == PublicId(HostPrefix, 1)
NewHost == PublicId(HostPrefix, 3)
\* the versions a caller may hold of a row: the first, a row's, or one ahead
\* of a row's
EntVersions(table) == {1} \cup UNION {{r.Version, r.Version + 1} : r \in db[table]}

\* addresses in white space other than the space (\t, \v in front, U+00A0
\* behind), of fewer characters than MinHostAddressLength in bytes enough, and
\* of characters enough in too many bytes
VtAddress == "\t127.0.0.1 "
ShortAddress == "ééééé"
LongAddress == Repeat("é", 128)

CreateCatalogArgs ==
    [c : {Catalog(NoId, "o_1", name, "", 0) : name \in {"", "a"}},
     optId : {NoId, TheCatalog}, rnd : {OtherCatalog.n, ThirdCatalog.n}, genFails : {FALSE}]
    \cup [c : {NoEnt, Catalog(NoId, "", "", "", 0), Catalog(TheCatalog, "o_1", "", "", 0)},
          optId : {NoId}, rnd : {OtherCatalog.n}, genFails : {FALSE}]
    \cup [c : {Catalog(NoId, "o_1", "", "", 0)}, optId : {NoId, NewHost},
          rnd : {OtherCatalog.n}, genFails : {TRUE}]
UpdateCatalogArgs ==
    [c : {Catalog(id, "o_1", name, "", 0) :
             id \in {TheCatalog, OtherCatalog}, name \in {"", "a"}},
     version : EntVersions("catalogs") \cup {0},
     fieldMask : {<<"Name">>, <<"name", "description">>}]
    \cup [c : {NoEnt, Catalog(NoId, "o_1", "", "", 0), Catalog(TheCatalog, "", "", "", 0)},
          version : {1}, fieldMask : {<<"name">>}]
    \cup [c : {Catalog(TheCatalog, "o_1", "a", "", 0)}, version : {1},
          fieldMask : {<<>>, <<"name", "id">>, <<"DESCRIPTION">>}]
DeleteCatalogArgs == [id : {NoId, OtherCatalog}, readFails : BOOLEAN]
CreateHostArgs ==
    [scopeId : {"o_1"},
     h : {Host(NoId, TheCatalog, "", "", " 127.0.0.1 ", 0),
          Host(NoId, TheCatalog, "a", "", VtAddress, 0)},
     optId : {NoId, FirstHost}, rnd : {NewHost.n}, genFails : {FALSE}]
    \cup [scopeId : {"o_1"},
          h : {NoEnt, Host(NoId, NoId, "", "", "127.0.0.2", 0),
               Host(FirstHost, TheCatalog, "", "", "127.0.0.2", 0),
               Host(NoId, TheCatalog, "", "", " \t", 0),
               Host(NoId, TheCatalog, "", "", LongAddress, 0),
               Host(NoId, OtherCatalog, "", "", "127.0.0.2", 0)},
          optId : {NoId}, rnd : {NewHost.n}, genFails : {FALSE}]
    \cup [scopeId : {""}, h : {Host(NoId, TheCatalog, "", "", "127.0.0.2", 0)},
          optId : {NoId}, rnd : {NewHost.n}, genFails : {FALSE}]
    \cup [scopeId : {"o_1"},
          h : {Host(NoId, TheCatalog, "", "", "127.0.0.2", 0),
               Host(NoId, TheCatalog, "", "", ShortAddress, 0)},
          optId : {NoId, TheCatalog}, rnd : {NewHost.n}, genFails : {TRUE}]
UpdateHostArgs ==
    [scopeId : {"o_1"},
     h : {Host(id, TheCatalog, "a", "", VtAddress, 0) : id \in {FirstHost, NewHost}},
     version : EntVersions("hosts"),
     fieldMaskPaths : {<<"name">>, <<"nAme", "ADDRESS">>, <<"Description">>}]
    \cup [scopeId : {"o_1"},
          h : {NoEnt, Host(NoId, TheCatalog, "", "", "127.0.0.2", 0),
               Host(FirstHost, TheCatalog, "", "", "  ", 0)},
          version : {1}, fieldMaskPaths : {<<"Address">>, <<"Address", "id">>}]
    \cup [scopeId : {"o_1"}, h : {Host(FirstHost, TheCatalog, "", "", LongAddress, 0)},
          version : {1}, fieldMaskPaths : {<<"address">>}]
    \cup [scopeId : {"", "o_1"}, h : {Host(FirstHost, TheCatalog, "a", "", "127.0.0.2", 0)},
          version : {0, 1}, fieldMaskPaths : {<<>>, <<"name", "id">>}]
DeleteHostArgs == [scopeId : ScopeIds, publicId : {NoId, FirstHost, NewHost}]
\* the ids a caller looks up or lists by: none, one of a row of the first
\* state, one of no row of the first state
LookupCatalogIds == {NoId, TheCatalog, OtherCatalog}
LookupHostIds == {NoId, FirstHost, NewHost}

NextCrud ==
    \/ CreateCatalog(1, CreateCatalogArgs)
    \/ UpdateCatalog(1, UpdateCatalogArgs)
    \/ DeleteCatalog(1, DeleteCatalogArgs)
    \/ CreateHost(1, CreateHostArgs)
    \/ UpdateHost(1, UpdateHostArgs)
    \/ DeleteHost(1, DeleteHostArgs)
    \/ LookupCatalog(1, LookupCatalogIds, BOOLEAN)
    \/ LookupHost(1, LookupHostIds, BOOLEAN)
    \/ ListCatalogs(1, ScopeIds, BOOLEAN)
    \/ ListHosts(1, LookupCatalogIds, BOOLEAN)
    \/ ResolveWrapper(1, BOOLEAN)
    \/ TxRetry(1)
    \/ CreateCatalogTx(1, FailPoints)
    \/ UpdateCatalogTx(1, FailPoints)
    \/ DeleteCatalogTx(1, FailPoints)
    \/ CreateHostTx(1, FailPoints)
    \/ UpdateHostTx(1, FailPoints)
    \/ DeleteHostTx(1, FailPoints)
SpecCrud == Init /\ [][NextCrud]_vars

\* The arguments and the faults of the caller whose transactions are run again
RetryCatalogArgs ==
    [c : {Catalog(NoId, "o_1", "a", "", 0)}, optId : {NoId},
     rnd : {OtherCatalog.n, ThirdCatalog.n}, genFails : {FALSE}]
RetryUpdateArgs ==
    [c : {Catalog(TheCatalog, "o_1", "a", "", 0)}, version : {1, 2},
     fieldMask : {<<"name">>, <<"description">>}]
RetryDeleteArgs == [scopeId : {"o_1"}, publicId : {FirstHost, NewHost}]
RetryDeleteCatalogArgs == [id : {TheCatalog, OtherCatalog}, readFails : {FALSE}]
\* the lists of host ids of these callers
RetryAddLists == {<<1>>, <<1, 1>>}
RerunSetLists == {<<>>, <<1, 2>>, <<2>>}
\* the faults a run of each body may meet
RetryAddFails == {"none", "create", "multi"}
RetryDeleteMembersFails == {"none", "delete", "multi"}
RerunSetFails == {"none", "oplog", "multi", "read"}
RetryCreateFails == {"none", "create"}
RetryUpdateFails == {"none", "update"}
RetryDeleteFails == {"none", "delete"}
\* One caller of the membership functions, of the functions that create,
\* update and delete a catalog and of DeleteHost, with runs of the body that
\* are rolled back and run again, and runs that fail for good.
NextRerun ==
    \/ AddSetMembers(1, {"o_1"}, {TheSet}, SeqVersions, RetryAddLists)
    \/ DeleteSetMembers(1, {"o_1"}, {TheSet}, SeqVersions, {<<1>>})
    \/ SetSetMembers(1, {"o_1"}, {TheSet}, NearVersions, RerunSetLists, {FALSE})
    \/ CreateCatalog(1, RetryCatalogArgs)
    \/ UpdateCatalog(1, RetryUpdateArgs)
    \/ DeleteCatalog(1, RetryDeleteCatalogArgs)
    \/ DeleteHost(1, RetryDeleteArgs)
    \/ ResolveWrapper(1, BOOLEAN)
    \/ TxRetry(1)
    \/ AddSetMembersTx(1, RetryAddFails)
    \/ DeleteSetMembersTx(1, RetryDeleteMembersFails)
    \/ SetSetMembersTx(1, RerunSetFails)
    \/ CreateCatalogTx(1, RetryCreateFails)
    \/ UpdateCatalogTx(1, RetryUpdateFails)
    \/ DeleteCatalogTx(1, RetryDeleteFails)
    \/ DeleteHostTx(1, RetryDeleteFails)
SpecRerun == Init /\ [][NextRerun]_vars

\* Concurrent callers of DeleteCatalog, on the catalog there is and on one
\* there is not; the store and the key manager show no fault of their own.
\* The transactions of the callers are serialized by the store: the delete
\* of the second waits for the commit of the first.
NextDel ==
    \E p \in Procs :
        \/ DeleteCatalog(p, RetryDeleteCatalogArgs)
        \/ ResolveWrapper(p, {FALSE})
        \/ TxRetry(p)
        \/ DeleteCatalogTx(p, {"none"})
SpecDel == Init /\ [][NextDel]_vars

\* ------------------------------------- package errors: calls and inputs
\* the messages, ids and options a caller passes
ErrorIds == {"", "testid", "uniqueId"}
OptsSet ==
    {NoOpts, WithMsg(NoOpts, "test msg"), WithWrap(NoOpts, ErrRecordNotFound),
     WithWrap(NoOpts, StdError("dont wrap this error")),
     WithWrap(WithMsg(NoOpts, "test msg"), ErrRecordNotFound)}
Sentinels ==
    {ErrInvalidParameter, ErrRecordNotFound, ErrNotUnique, ErrNotNull, ErrCheckConstraint}
\* domain errors made by New, the sentinels, and errors of other packages
DomainErrs == {New(c, id, o) : c \in Codes, id \in {"", "uniqueId"}, o \in OptsSet} \cup Sentinels
ForeignErrs == {StdError("std error"), StdError("test error")}

\* errors.New is called
CallNew(codes, ids, optss) ==
    /\ ev.fn = "none"
    /\ \E c \in codes, id \in ids, o \in optss :
          ev' = [NoEv EXCEPT !.fn = "New", !.code = c, !.id = id, !.opts = o,
                             !.out = New(c, id, o)]
    /\ UNCHANGED <<db, calls>>

\* errors.Wrap is called
CallWrap(errs, ids, optss) ==
    /\ ev.fn = "none"
    /\ \E e \in errs, id \in ids, o \in optss :
          ev' = [NoEv EXCEPT !.fn = "Wrap", !.e = e, !.id = id, !.opts = o,
                             !.out = Wrap(e, id, o)]
    /\ UNCHANGED <<db, calls>>

\* store-driver errors: unique, not-null and check violations, a missing
\* relation, other integrity errors, a serialization failure
PqErrs ==
    {PqError("23505", "Key (name)=(alice) already exists."),
     PqError("23502", "description must not be empty"),
     PqError("23514", "test_table_five_check constraint failed"),
     PqError("42P01", "relation \"not_a_defined_table\" does not exist"),
     PqError("23001", ""), PqError("23503", "violates foreign key constraint"),
     PqError("40001", "could not serialize access")}

\* errors.Convert is called
CallConvert(errs, ids) ==
    /\ ev.fn = "none"
    /\ \E e \in errs, id \in ids :
          ev' = [NoEv EXCEPT !.fn = "Convert", !.e = e, !.id = id,
                             !.out = ConvertStoreError(e, id)]
    /\ UNCHANGED <<db, calls>>

\* the errors whose string is asked for: errors of the numbered codes, with
\* and without id, message and wrapped error, the errors Convert makes, nil
StringErrs ==
    {New(c, id, o) : c \in {"Unknown", "CheckConstraint", "NotNull", "NotUnique", "MissingTable"},
                     id \in {"", "uniqueId"},
                     o \in {NoOpts, WithMsg(NoOpts, "test msg"),
                            WithWrap(NoOpts, ErrNotUnique),
                            WithWrap(WithMsg(NoOpts, "test msg"), StdError("std error"))}}
    \cup {ConvertStoreError(e, "") : e \in PqErrs \ {PqError("23001", ""),
                                                    PqError("23503", "violates foreign key constraint")}}
    \cup {NilError}

\* e.Error() is called
CallError(errs) ==
    /\ ev.fn = "none"
    /\ \E e \in errs :
          ev' = [NoEv EXCEPT !.fn = "Error", !.e = e, !.str = ErrorString(e)]
    /\ UNCHANGED <<db, calls>>

\* the errors asked about with Is, Match and Unwrap: sentinels and other
\* errors wrapped by Wrap and by New with WithWrap, and errors that wrap nothing
IsErrs ==
    {Wrap(s, "testid", o) : s \in Sentinels \cup ForeignErrs,
                            o \in {NoOpts, WithMsg(NoOpts, "test msg")}}
    \cup {New(c, "testid", WithWrap(o, s)) :
             c \in {"Unknown", "InvalidParameter", "NotUnique"}, s \in Sentinels \cup ForeignErrs,
             o \in {NoOpts, WithMsg(NoOpts, "test msg")}}
    \cup {New(c, "testid", o) : c \in {"Unknown", "NotUnique"},
                               o \in {NoOpts, WithMsg(NoOpts, "test error")}}
    \cup Sentinels

\* errors.Is(e, target) is called, with a target of the set or with e itself
CallIs(errs, targets) ==
    /\ ev.fn = "none"
    /\ \E e \in errs : \E t \in targets \cup {e} :
          ev' = [NoEv EXCEPT !.fn = "Is", !.e = e, !.target = t, !.ok = Is(e, t)]
    /\ UNCHANGED <<db, calls>>

\* errors.Match(errors.T(code), e) is called
CallMatch(codes, errs) ==
    /\ ev.fn = "none"
    /\ \E c \in codes, e \in errs :
          ev' = [NoEv EXCEPT !.fn = "Match", !.e = e, !.code = c, !.ok = Match(c, e)]
    /\ UNCHANGED <<db, calls>>

\* e.Unwrap() is called
CallUnwrap(errs) ==
    /\ ev.fn = "none"
    /\ \E e \in errs :
          ev' = [NoEv EXCEPT !.fn = "Unwrap", !.e = e, !.out = Unwrap(e)]
    /\ UNCHANGED <<db, calls>>

\* the error ids the handler may generate
GenIds == {"errid_1", "errid_2"}
\* the errors handed to the handler: domain errors of every code, errors of
\* other packages, the routing error, RPC status errors, request errors
HandlerErrs ==
    DomainErrs \cup {New(c, "testid", o) : c \in Codes, o \in OptsSet}
    \cup ForeignErrs \cup PqErrs
    \cup {ErrNotMatch, StatusError("Unimplemented", "Test"),
          StatusError("Unimplemented", "test msg"), StatusError("Internal", "Test")}
    \cup {NotFoundErrorf(m) : m \in {"Test", "test msg"}}
    \cup {InvalidArgumentErrorf(m, f) :
             m \in {"Test", "test msg"},
             f \in {<<>>, [n \in {"k1", "k2"} |-> IF n = "k1" THEN "v1" ELSE "v2"],
                    [n \in {"k2"} |-> "v2"],
                    [n \in {"update_mask", "k1"} |-> "v1"]}}

\* the handler is called with an error
HandleError(errs, gens) ==
    /\ ev.fn = "none"
    /\ \E e \in errs, gen \in gens :
          ev' = [NoEv EXCEPT !.fn = "Handle", !.e = e, !.id = gen, !.resp = WriteError(e, gen)]
    /\ UNCHANGED <<db, calls>>

\* the caller has looked at the result
Forget ==
    /\ ev.fn # "none"
    /\ ev' = NoEv
    /\ UNCHANGED <<db, calls>>

\* package errors on its own: one call after the other
\* the errors handed to Wrap, Convert and Unwrap, the targets of Is and the
\* codes of Match
WrapErrs == DomainErrs \cup ForeignErrs
ConvertErrs == {NilError} \cup PqErrs \cup ForeignErrs \cup DomainErrs
IsTargets == Sentinels \cup ForeignErrs
MatchCodes == {"Unknown", "InvalidParameter", "NotUnique", "RecordNotFound"}
UnwrapErrs == IsErrs \cup {NilError}
NextErr ==
    \/ CallNew(Codes, ErrorIds, OptsSet)
    \/ CallWrap(WrapErrs, ErrorIds, OptsSet)
    \/ CallConvert(ConvertErrs, ErrorIds)
    \/ CallError(StringErrs)
    \/ CallIs(IsErrs, IsTargets)
    \/ CallMatch(MatchCodes, IsErrs)
    \/ CallUnwrap(UnwrapErrs)
    \/ HandleError(HandlerErrs, GenIds)
    \/ Forget
SpecErr == Init /\ [][NextErr]_vars

\* ------------------------------------------------------------------ claims
MemberOps == {"AddSetMembers", "DeleteSetMembers", "SetSetMembers"}

\* in this step the call of p returns
Returns(p) == calls'[p].pc = "done" /\ calls'[p] # calls[p]
\* in this step the call of p returns from writer.DoTx
ReturnsFromTx(p) == calls[p].pc = "tx" /\ calls'[p].pc = "done"
\* in this step p enters a new call
Enters(p) == calls[p].pc \in {"idle", "done"} /\ calls'[p] # calls[p]
\* the symmetric difference of two sets
SymDiff(A, B) == (A \ B) \cup (B \ A)
\* the call reports that it changed nothing: an error, or a count of zero
ReportsNoChange(c) ==
    \/ c.err # NoErr
    \/ c.op \in {"DeleteSetMembers", "SetSetMembers"} /\ c.count = 0

\* C1: a membership call that supplies a version other than the stored one is
\* never applied: the members and the version of the set are after the call
\* what they were before, and the call reports a conflict or no change.
C1_StaleVersionNeverApplied ==
    [][\A p \in Procs :
          (/\ ReturnsFromTx(p)
           /\ calls[p].op \in MemberOps
           /\ calls[p].version # db.setVersion)
          => (/\ db'.members = db.members
              /\ db'.setVersion = db.setVersion
              /\ ReportsNoChange(calls'[p]))]_vars

UpdateOps == {"UpdateCatalog", "UpdateHost"}
\* the table UpdateCatalog or UpdateHost updates
TableOf(op) == IF op = "UpdateCatalog" THEN "catalogs" ELSE "hosts"
\* no row has the public id and the version the update call of c names
NoRowMatches(st, c) ==
    ~ \E r \in st[TableOf(c.op)] : r.PublicId = c.loc.PublicId /\ r.Version = c.version
\* the error is that of a store that failed the update statement itself
UpdateFault(e) == e.cause \in {"update_failed", "MultipleRecords"}

\* C2: an UpdateCatalog or UpdateHost whose version is not the stored one, or
\* whose id names no row, affects no row: unless the store fails the
\* statement, the call returns count 0 and no error, and the store, oplog
\* included, is what it was.
C2_StaleUpdateIsNoOp ==
    [][\A p \in Procs :
          (/\ ReturnsFromTx(p)
           /\ calls[p].op \in UpdateOps
           /\ NoRowMatches(db, calls[p])
           /\ ~ UpdateFault(calls'[p].err))
          => (/\ calls'[p].err = NoErr
              /\ calls'[p].count = 0
              /\ calls'[p].ret = calls[p].loc
              /\ db' = db)]_vars
\* an UpdateCatalog with the version the catalog had before an earlier update
\* has returned count 0 and no error
C2_Witness ==
    /\ calls[1].pc = "done" /\ calls[1].op = "UpdateCatalog"
    /\ calls[1].err = NoErr /\ calls[1].count = 0
    /\ calls[1].version >= 1
    /\ calls[1].ended = calls[1].began
    /\ \E r \in db.catalogs : r.PublicId = calls[1].ent.PublicId /\ r.Version > calls[1].version

\* the call of p has committed a change of the set's members
CommittedMembers(p) ==
    /\ calls[p].pc = "done"
    /\ calls[p].op \in MemberOps
    /\ calls[p].err = NoErr
    /\ calls[p].ended > calls[p].began
\* the calls of p and q were in flight at the same time
Overlap(p, q) == calls[p].began < calls[q].ended /\ calls[q].began < calls[p].ended

\* C3: of two concurrent membership calls that supply the same expected
\* version at most one commits its change.
C3_NoLostUpdate ==
    \A p, q \in Procs :
        (p # q /\ CommittedMembers(p) /\ CommittedMembers(q) /\ Overlap(p, q))
        => calls[p].version # calls[q].version

\* C4: the oplog and the data change together: a step appends at most one
\* entry, appends one exactly when it changes a row, and a call whose
\* version update affected no row leaves no entry.
C4_OplogCoupled ==
    [][/\ Len(db'.oplog) \in {Len(db.oplog), Len(db.oplog) + 1}
       /\ (Len(db'.oplog) = Len(db.oplog) + 1)
            <=> (db'.members # db.members \/ db'.setVersion # db.setVersion)
       /\ \A p \in Procs :
            (ReturnsFromTx(p) /\ calls[p].op \in MemberOps /\ calls'[p].rowsUpdated = 0)
            => db'.oplog = db.oplog]_vars

\* C5: a call that returns an error leaves the store exactly as it was.
C5_ErrorLeavesStoreUnchanged ==
    [][\A p \in Procs : (Returns(p) /\ calls'[p].err # NoErr) => db' = db]_vars
\* a SetSetMembers whose deletions succeeded and whose additions failed has
\* returned, and the members it deleted are members
C5_Witness ==
    /\ calls[1].pc = "done" /\ calls[1].op = "SetSetMembers"
    /\ calls[1].err.cause = "create_failed"
    /\ Len(calls[1].deletions) > 0 /\ Len(calls[1].additions) > 0
    /\ Range(calls[1].deletions) \subseteq db.members

\* C6: without concurrent callers a successful SetSetMembers with the stored
\* version leaves the members equal to the set of hostIds and returns
\* exactly these hosts.
C6_SetPostcondition ==
    [][(/\ Returns(1)
        /\ calls'[1].op = "SetSetMembers"
        /\ calls'[1].err = NoErr
        /\ calls'[1].version = db.setVersion)
       => (/\ db'.members = Range(calls'[1].hostIds)
           /\ calls'[1].hosts = db'.members)]_vars

\* C7: under any interleaving a SetSetMembers that returns success has left
\* the members equal to its hostIds at its commit; otherwise it fails and
\* changes nothing.
C7_SetRaceFree ==
    [][\A p \in Procs :
          (ReturnsFromTx(p) /\ calls[p].op = "SetSetMembers")
          => IF calls'[p].err = NoErr
             THEN db'.members = Range(calls[p].hostIds)
             ELSE db' = db]_vars

\* C8: a SetSetMembers that follows a successful SetSetMembers with the same
\* hostIds finds no change: it returns at once with count 0, opens no
\* transaction and leaves oplog, version and members alone.
C8_SetIdempotent ==
    [][(/\ calls[1].pc = "done" /\ calls[1].op = "SetSetMembers" /\ calls[1].err = NoErr
        /\ Enters(1)
        /\ calls'[1].op = "SetSetMembers"
        /\ calls'[1].hostIds = calls[1].hostIds
        /\ calls'[1].err = NoErr)
       => (/\ calls'[1].pc = "done"
           /\ calls'[1].nchanges = 0
           /\ calls'[1].count = 0
           /\ db' = db)]_vars
\* a SetSetMembers has returned with no change right after the commit of a
\* SetSetMembers that made the members what this call asks for
C8_Witness ==
    /\ calls[1].pc = "done" /\ calls[1].op = "SetSetMembers" /\ calls[1].err = NoErr
    /\ calls[1].nchanges = 0 /\ calls[1].count = 0
    /\ calls[1].began = Len(db.oplog)
    /\ Len(db.oplog) > 0
    /\ db.oplog[Len(db.oplog)].metadata.opTypes[1] = "UPDATE"
    /\ db.members = Range(calls[1].hostIds)
    /\ db.members # {}

\* C9: a SetSetMembers that finds no change returns the members of the set,
\* count 0 and no error.
C9_EmptyDeltaReturnsMembers ==
    (/\ calls[1].pc = "done" /\ calls[1].op = "SetSetMembers"
     /\ calls[1].err = NoErr /\ calls[1].nchanges = 0)
    => (calls[1].hosts = db.members /\ calls[1].count = 0)

\* C10: the count a successful SetSetMembers returns is the number of rows
\* it changed: additions plus deletions, the size of the symmetric
\* difference of the members before the call and hostIds; no host is both
\* added and deleted.
C10_CountIsChangedRows ==
    [][(Returns(1) /\ calls'[1].op = "SetSetMembers" /\ calls'[1].err = NoErr)
       => (/\ calls'[1].count = Len(calls'[1].additions) + Len(calls'[1].deletions)
           /\ calls'[1].count = Cardinality(SymDiff(db.members, Range(calls'[1].hostIds)))
           /\ Range(calls'[1].additions) \cap Range(calls'[1].deletions) = {})]_vars
\* a SetSetMembers that added and deleted has returned a count that is not
\* the number of members
C10_Witness ==
    /\ calls[1].pc = "done" /\ calls[1].op = "SetSetMembers" /\ calls[1].err = NoErr
    /\ Len(calls[1].additions) > 0 /\ Len(calls[1].deletions) > 0
    /\ calls[1].count = 2
    /\ Cardinality(db.members) = 1

\* the op-type tags of the last entry of the oplog of st
LastTags(st) == st.oplog[Len(st.oplog)].metadata.opTypes

\* C11: a successful SetSetMembers with a non-empty delta writes exactly one
\* oplog entry; its op-type tags hold DELETE iff the call deleted members
\* and CREATE iff it added members, and DELETE stands before CREATE.
C11_SetOplogTags ==
    [][(/\ Returns(1)
        /\ calls'[1].op = "SetSetMembers"
        /\ calls'[1].err = NoErr
        /\ calls'[1].nchanges > 0)
       => (/\ Len(db'.oplog) = Len(db.oplog) + 1
           /\ LET tags == LastTags(db')
              IN /\ ("DELETE" \in Range(tags)) <=> (Len(calls'[1].deletions) > 0)
                 /\ ("CREATE" \in Range(tags)) <=> (Len(calls'[1].additions) > 0)
                 /\ \A i, j \in 1..Len(tags) :
                       (tags[i] = "DELETE" /\ tags[j] = "CREATE") => i < j)]_vars
\* a SetSetMembers that deleted and added members has returned, and the
\* entry it wrote carries both tags
C11_Witness ==
    /\ calls[1].pc = "done" /\ calls[1].op = "SetSetMembers" /\ calls[1].err = NoErr
    /\ Len(calls[1].deletions) > 0 /\ Len(calls[1].additions) > 0
    /\ calls[1].ended = Len(db.oplog) /\ calls[1].ended = calls[1].began + 1
    /\ {"DELETE", "CREATE"} \subseteq Range(LastTags(db))

\* C12: AddSetMembers and DeleteSetMembers with a scope, a set, a version
\* and no host ids return MissingHostIds at once: no wrapper is resolved, no
\* transaction is opened, the store is not touched; the count of
\* DeleteSetMembers is db.NoRowsAffected.
C12_MissingHostIds ==
    [][\A p \in Procs :
          (/\ Enters(p)
           /\ calls'[p].op \in {"AddSetMembers", "DeleteSetMembers"}
           /\ calls'[p].scopeId # "" /\ calls'[p].setId # NoId /\ calls'[p].version # 0
           /\ Len(calls'[p].hostIds) = 0)
          => (/\ calls'[p].pc = "done"
              /\ calls'[p].err = NewErr("MissingHostIds")
              /\ calls'[p].count = NoRowsAffected
              /\ calls'[p].hosts = {}
              /\ db' = db)]_vars
\* a DeleteSetMembers without host ids has returned MissingHostIds while
\* the set has members
C12_Witness ==
    /\ calls[1].pc = "done" /\ calls[1].op = "DeleteSetMembers"
    /\ calls[1].hostIds = <<>> /\ calls[1].version = db.setVersion
    /\ calls[1].err.code = "MissingHostIds"
    /\ db.members # {}

\* the functions that take the version the caller expects
VersionedOps == UpdateOps \cup MemberOps
\* the codes of the parameter checks that stand before a check of the version
BeforeVersionCodes == {"InvalidParameter", "MissingPublicId", "MissingScopeId", "MissingSetId"}

\* C13: a call of UpdateCatalog, UpdateHost, AddSetMembers, DeleteSetMembers
\* or SetSetMembers with version 0 returns at once, before the wrapper is
\* resolved and before any transaction, with MissingVersion (or with the
\* error of a parameter check that stands before), and the store is
\* unchanged.
C13_MissingVersion ==
    [][\A p \in Procs :
          (/\ Enters(p)
           /\ calls'[p].op \in VersionedOps
           /\ calls'[p].version = 0)
          => (/\ calls'[p].pc = "done"
              /\ calls'[p].err.code \in BeforeVersionCodes \cup {"MissingVersion"}
              /\ (calls'[p].err.code \in BeforeVersionCodes
                    => (calls'[p].ent = NoEnt \/ calls'[p].scopeId = ""
                        \/ (calls'[p].op \in MemberOps /\ calls'[p].setId = NoId)
                        \/ (calls'[p].op \in UpdateOps /\ calls'[p].ent.PublicId = NoId)))
              /\ db' = db)]_vars

\* the codes of the identifiers that the call c was given empty: its scope
\* id, set id, catalog id or public id, as far as its function takes one
MissingIdCodes(c) ==
    {"MissingScopeId" : x \in {1} \cap
        (IF c.op # "DeleteCatalog" /\ c.scopeId = "" THEN {1} ELSE {})}
    \cup {"MissingSetId" : x \in {1} \cap
        (IF c.op \in MemberOps /\ c.setId = NoId THEN {1} ELSE {})}
    \cup {"MissingCatalogId" : x \in {1} \cap
        (IF c.op = "CreateHost" /\ c.ent.CatalogId = NoId THEN {1} ELSE {})}
    \cup {"MissingPublicId" : x \in {1} \cap
        (IF \/ c.op \in UpdateOps /\ c.ent.PublicId = NoId
            \/ c.op \in {"DeleteCatalog", "DeleteHost"} /\ c.publicId = NoId
         THEN {1} ELSE {})}

\* C14: a call that is given an empty scope id, set id, catalog id or public
\* id returns at once, before the key manager and the store are contacted,
\* with the Missing... code of an identifier it lacks (or with the
\* InvalidParameter or MissingVersion of a parameter check that stands
\* before), and the store is unchanged.
C14_MissingIdentifiers ==
    [][\A p \in Procs :
          (/\ Enters(p)
           /\ calls'[p].op # "none"
           /\ (calls'[p].op \in MemberOps \cup {"DeleteCatalog", "DeleteHost"}
                  \/ calls'[p].ent # NoEnt)
           /\ MissingIdCodes(calls'[p]) # {})
          => (/\ calls'[p].pc = "done"
              /\ calls'[p].err.code \in
                    MissingIdCodes(calls'[p]) \cup {"InvalidParameter", "MissingVersion"}
              /\ db' = db)]_vars

\* the rows the store reported for the statement of the call c that names
\* one public id
RowsReported(c) == IF c.op \in {"DeleteCatalog", "DeleteHost"} THEN c.rowsDeleted ELSE c.rowsUpdated

\* C15: when the store reports more than one row for an update or delete by
\* public id, or for the update of the set's version, nothing is committed
\* and the error the call returns has the code MultipleRecords.
C15_MultipleRecords ==
    [][\A p \in Procs :
          (ReturnsFromTx(p) /\ RowsReported(calls'[p]) > 1)
          => (/\ db' = db
              /\ calls'[p].err.code = "MultipleRecords"
              /\ calls'[p].count = NoRowsAffected)]_vars

\* in this step DoTx runs the body of the call of p again
Retries(p) == calls[p].pc = "tx" /\ calls'[p].retries = calls[p].retries + 1

\* C16: the oplog wrapper is resolved inside the transaction: a call whose
\* wrapper cannot be resolved fails out of its transaction, and a retry of
\* the body resolves the wrapper again.
C16_WrapperInsideTx ==
    [][\A p \in Procs :
          /\ (Returns(p) /\ calls'[p].err.cause = "kms_failure") => calls[p].pc = "tx"
          /\ Retries(p) => calls'[p].pc = "kms"]_vars

\* C16 (as the code has it): the oplog wrapper is resolved before the
\* transaction is opened.  A call enters its transaction only from the
\* resolution of the wrapper and only with a wrapper; a call whose wrapper
\* cannot be resolved returns that error without a transaction, with the
\* store unchanged; a retry of the body does not resolve the wrapper again.
C16_WrapperBeforeTx ==
    [][\A p \in Procs :
          /\ (calls[p].pc = "kms" /\ calls'[p] # calls[p])
               => \/ calls'[p].pc = "tx" /\ calls'[p].err = NoErr
                  \/ /\ calls'[p].pc = "done"
                     /\ calls'[p].err = WrapStoreErr("kms_failure")
                     /\ calls'[p].count = NoRowsAffected
                     /\ calls'[p].began = calls'[p].ended
                     /\ db' = db
          /\ (calls[p].pc # "tx" /\ calls'[p].pc = "tx") => calls[p].pc = "kms"
          /\ (Returns(p) /\ calls'[p].err.cause = "kms_failure") => calls[p].pc = "kms"
          /\ Retries(p) => calls'[p].pc = "tx"]_vars
\* a call has returned the error of the key manager after an earlier call
\* committed, and a call with a wrapper has had its body run again
C16_Witness ==
    \/ /\ calls[1].pc = "done" /\ calls[1].err.cause = "kms_failure"
       /\ Len(db.oplog) > 0
    \/ /\ calls[1].pc = "tx" /\ calls[1].retries > 0

\* the causes that are not errors of the store: none, the body's own
\* MultipleRecords, the key manager
NotStoreCauses == {"", "MultipleRecords", "kms_failure"}

\* C17: when the transaction of a mutating operation (create, update, delete
\* or membership) fails with a store error, the operation returns the domain
\* error Convert gives for it, or an Unknown error wrapping it if Convert gives
\* none.
C17_ConvertOrUnknown ==
    [][\A p \in Procs :
          (ReturnsFromTx(p) /\ calls'[p].err # NoErr
             /\ calls'[p].err.cause \notin NotStoreCauses)
          => calls'[p].err = ConvertOrUnknown(WrapStoreErr(calls'[p].err.cause))]_vars

\* the operations that change one catalog or one host that exists
EntityOps == {"UpdateCatalog", "UpdateHost", "DeleteCatalog", "DeleteHost"}
\* the table such an operation writes
EntityTable(op) == IF op \in {"UpdateCatalog", "DeleteCatalog"} THEN "catalogs" ELSE "hosts"
\* the public id of the row the call is about
TargetId(c) == IF c.op \in UpdateOps THEN c.loc.PublicId ELSE c.publicId
\* the call names a row that exists, at a version the row does not have
VersionChanged(st, c) ==
    /\ \E r \in st[EntityTable(c.op)] : r.PublicId = TargetId(c)
    /\ ~ \E r \in st[EntityTable(c.op)] : r.PublicId = TargetId(c) /\ r.Version = c.version

\* C18: every operation that changes a catalog or a host, the deletes
\* included, carries the version its caller read, and when the row is at
\* another version the store rejects it: no row is affected and the row stays.
C18_DeleteChecksVersion ==
    [][\A p \in Procs :
          (/\ ReturnsFromTx(p)
           /\ calls[p].op \in EntityOps
           /\ VersionChanged(db, calls[p]))
          => (/\ db'[EntityTable(calls[p].op)] = db[EntityTable(calls[p].op)]
              /\ calls'[p].count = NoRowsAffected)]_vars

\* the versions of the rows of a table, by public id
VersionsOf(st, table) == {<<r.PublicId, r.Version>> : r \in st[table]}
\* no catalog, host or host set that is in both stores has a lower version in
\* the second
NoVersionDecrease(st, st2) ==
    /\ st2.setVersion >= st.setVersion
    /\ \A table \in {"catalogs", "hosts"} :
         \A r \in st[table], r2 \in st2[table] :
            r.PublicId = r2.PublicId => r2.Version >= r.Version
\* every catalog, host and host set has in the second store the version it has
\* in the first
SameVersions(st, st2) ==
    /\ st2.setVersion = st.setVersion
    /\ \A table \in {"catalogs", "hosts"} :
         \A r \in st[table], r2 \in st2[table] :
            r.PublicId = r2.PublicId => r2.Version = r.Version
\* the call is a membership call that succeeded with something to change
MembershipChanged(c) ==
    /\ c.op \in MemberOps /\ c.err = NoErr
    /\ c.op = "SetSetMembers" => c.nchanges > 0

\* C19: versions never decrease; a successful UpdateCatalog or UpdateHost that
\* affects a row raises the version of that row by one, a successful
\* AddSetMembers, DeleteSetMembers or SetSetMembers with a non-empty delta
\* raises the version of the set by exactly one, and a failed call or a
\* SetSetMembers with an empty delta leaves every version as it was.
C19_VersionMonotonic ==
    [][/\ NoVersionDecrease(db, db')
       /\ \A p \in Procs :
            /\ (ReturnsFromTx(p) /\ MembershipChanged(calls'[p]))
                 => db'.setVersion = db.setVersion + 1
            /\ (ReturnsFromTx(p) /\ calls'[p].op \in UpdateOps
                  /\ calls'[p].err = NoErr /\ calls'[p].count > 0)
                 => \E r \in db[TableOf(calls'[p].op)], r2 \in db'[TableOf(calls'[p].op)] :
                       /\ r.PublicId = calls'[p].loc.PublicId
                       /\ r2.PublicId = r.PublicId
                       /\ r2.Version = r.Version + 1
            /\ (Returns(p) /\ (calls'[p].err # NoErr \/ ~ MembershipChanged(calls'[p]))
                  /\ calls'[p].op \notin UpdateOps)
                 => SameVersions(db, db')
            /\ (Returns(p) /\ calls'[p].op \in UpdateOps
                  /\ (calls'[p].err # NoErr \/ calls'[p].count = 0))
                 => SameVersions(db, db')]_vars

\* no two rows of a table have the same parent and the same Name that is set
NoDupNames(st) ==
    \A table \in {"catalogs", "hosts"} :
       \A r1, r2 \in st[table] :
          (r1 # r2 /\ Parent(table, r1) = Parent(table, r2) /\ r1.Name # "")
          => r1.Name # r2.Name
CreateOps == {"CreateCatalog", "CreateHost"}
\* the call would give its row a Name another row of the same parent has
WouldDuplicate(st, c) ==
    LET table == IF c.op \in {"CreateCatalog", "UpdateCatalog"} THEN "catalogs" ELSE "hosts"
    IN \/ /\ c.op \in CreateOps
          /\ c.loc.Name # ""
          /\ \E r \in st[table] :
                /\ r.PublicId # c.loc.PublicId
                /\ Parent(table, r) = Parent(table, c.loc)
                /\ r.Name = c.loc.Name
       \/ /\ c.op \in UpdateOps
          /\ "name" \in c.dbMask
          /\ \E old, r \in st[table] :
                /\ old.PublicId = c.loc.PublicId /\ old.Version = c.version
                /\ r.PublicId # old.PublicId
                /\ Parent(table, r) = Parent(table, old)
                /\ r.Name = c.loc.Name
\* the store failed the statement for a reason of its own
StatementFault(e) == e.cause \in {"create_failed", "update_failed", "MultipleRecords"}

\* C20: no two catalogs of a scope and no two hosts of a catalog ever share a
\* Name that is set; a CreateCatalog, CreateHost, UpdateCatalog or UpdateHost
\* that would introduce a duplicate fails with the domain error NotUnique,
\* leaves the store unchanged, and the API error handler renders its error as
\* HTTP 400 InvalidArgument with the generic uniqueness message.
C20_NameUnique ==
    /\ NoDupNames(db)
    /\ [][/\ NoDupNames(db')
          /\ \A p \in Procs :
               (/\ ReturnsFromTx(p)
                /\ WouldDuplicate(db, calls[p])
                /\ ~ StatementFault(calls'[p].err))
               => (/\ calls'[p].err.code = "NotUnique"
                   /\ calls'[p].ret = NoEnt
                   /\ db' = db
                   /\ ErrorHandler(calls'[p].err) =
                        [Status |-> 400, Code |-> "InvalidArgument",
                         Message |-> genericUniquenessMsg])]_vars
\* a second CreateCatalog with the Name "a" in the scope of a catalog created
\* with that Name, under an id of its own, has failed with NotUnique
C20_Witness ==
    /\ calls[1].pc = "done" /\ calls[1].op = "CreateCatalog"
    /\ calls[1].err.code = "NotUnique"
    /\ calls[1].loc.Name = "a"
    /\ ~ \E r \in db.catalogs : r.PublicId = calls[1].loc.PublicId
    /\ \E r \in db.catalogs :
          /\ r.PublicId \in {OtherCatalog, ThirdCatalog}
          /\ r.ScopeId = calls[1].loc.ScopeId /\ r.Name = "a"

\* the public ids of the rows of a table
IdsOf(st, table) == {r.PublicId : r \in st[table]}
\* the prefix of the ids of the rows a create operation makes
PrefixOf(op) == IF op = "CreateCatalog" THEN HostCatalogPrefix ELSE HostPrefix
\* every catalog has an id with the catalog prefix, every host one with the
\* host prefix, and no two rows of a table have the same id
IdsWellFormed(st) ==
    /\ \A r \in st.catalogs : r.PublicId # NoId /\ HasPrefix(r.PublicId, HostCatalogPrefix)
    /\ \A r \in st.hosts : r.PublicId # NoId /\ HasPrefix(r.PublicId, HostPrefix)
    /\ \A table \in {"catalogs", "hosts"} :
          \A r1, r2 \in st[table] : r1.PublicId = r2.PublicId => r1 = r2
\* the input of a create call has no defect other than its ids
CreateInputChecked(c) ==
    /\ c.ent # NoEnt
    /\ c.scopeId # ""
    /\ c.op = "CreateHost"
         => c.ent.CatalogId # NoId /\ ~ BadAddressLength(TrimSpace(c.ent.Address))

\* C21: every stored catalog has an id with the prefix hcst and every stored
\* host one with the prefix hst, ids are unique, and no operation changes the
\* id of a row: an update leaves the ids of its table as they are and returns
\* the row it was asked for; a create whose input carries a PublicId, or whose
\* id option has the wrong prefix, is rejected with InvalidParameter before
\* the key manager and the store; every other create that goes on has an id
\* the method generated, with the prefix of its type, which is not an id
\* the caller chose (the id option is not the id of the new row), and adds
\* no other id.
C21_PublicIds ==
    /\ IdsWellFormed(db)
    /\ [][/\ IdsWellFormed(db')
          /\ \A p \in Procs :
               /\ (ReturnsFromTx(p) /\ calls[p].op \in UpdateOps)
                    => /\ IdsOf(db', TableOf(calls[p].op)) = IdsOf(db, TableOf(calls[p].op))
                       /\ calls'[p].ret # NoEnt
                            => calls'[p].ret.PublicId = calls[p].loc.PublicId
               /\ (ReturnsFromTx(p) /\ calls[p].op \in CreateOps)
                    => /\ IdsOf(db', "catalogs") \cup IdsOf(db', "hosts")
                            \subseteq IdsOf(db, "catalogs") \cup IdsOf(db, "hosts")
                                        \cup {calls[p].loc.PublicId}
                       /\ calls'[p].ret # NoEnt
                            => calls'[p].ret.PublicId = calls[p].loc.PublicId
               /\ (Enters(p) /\ calls'[p].op \in CreateOps /\ CreateInputChecked(calls'[p])
                     /\ (\/ calls'[p].ent.PublicId # NoId
                         \/ /\ calls'[p].optId # NoId
                            /\ ~ HasPrefix(calls'[p].optId, PrefixOf(calls'[p].op))))
                    => /\ calls'[p].pc = "done"
                       /\ calls'[p].err = NewErr("InvalidParameter")
                       /\ calls'[p].ret = NoEnt
                       /\ db' = db
               /\ (Enters(p) /\ calls'[p].op \in CreateOps /\ calls'[p].pc = "kms")
                    => /\ calls'[p].loc.PublicId # NoId
                       /\ HasPrefix(calls'[p].loc.PublicId, PrefixOf(calls'[p].op))
                       /\ calls'[p].loc.PublicId # calls'[p].optId]_vars

\* some host id of the list is already a member, or is in the list twice
HasDuplicate(st, hostIds) ==
    \/ Range(hostIds) \cap st.members # {}
    \/ Cardinality(Range(hostIds)) # Len(hostIds)

\* C22: AddSetMembers never de-duplicates: when a supplied host id is already
\* a member, or is supplied twice, the call fails with the domain error
\* NotUnique (unless the store fails the insert for a reason of its own), and
\* no member is added, the version is not bumped and no oplog entry written.
C22_AddRejectsDuplicates ==
    [][\A p \in Procs :
          (/\ ReturnsFromTx(p)
           /\ calls[p].op = "AddSetMembers"
           /\ HasDuplicate(db, calls[p].hostIds)
           /\ ~ StatementFault(calls'[p].err))
          => (/\ calls'[p].err.code = "NotUnique"
              /\ calls'[p].hosts = {}
              /\ db' = db)]_vars

\* C23: DeleteSetMembers is all-or-nothing.  It succeeds only if every
\* supplied host id was a member, none was supplied twice, and all of them
\* were deleted, and it then returns their number; if a supplied id is not a
\* member or is repeated it returns an error of code Unknown with count 0, and
\* no member is removed, no version bumped and no oplog entry written.
C23_DeleteAllOrNothing ==
    [][\A p \in Procs :
          (ReturnsFromTx(p) /\ calls[p].op = "DeleteSetMembers")
          => /\ calls'[p].err = NoErr
                  => /\ Range(calls[p].hostIds) \subseteq db.members
                     /\ Cardinality(Range(calls[p].hostIds)) = Len(calls[p].hostIds)
                     /\ db'.members = db.members \ Range(calls[p].hostIds)
                     /\ calls'[p].count = Len(calls[p].hostIds)
                     /\ calls'[p].count = Cardinality(db.members) - Cardinality(db'.members)
             /\ (\/ ~ (Range(calls[p].hostIds) \subseteq db.members)
                 \/ Cardinality(Range(calls[p].hostIds)) # Len(calls[p].hostIds))
                  => /\ calls'[p].err.code = "Unknown"
                     /\ calls'[p].count = NoRowsAffected
                     /\ db' = db]_vars
\* a DeleteSetMembers of a member and a host that is not one has failed with
\* the function's own Unknown error, and the member is still there
C23_Witness ==
    /\ calls[1].pc = "done" /\ calls[1].op = "DeleteSetMembers"
    /\ calls[1].err = NewErr("Unknown") /\ calls[1].count = 0
    /\ Range(calls[1].hostIds) \cap db.members # {}
    /\ ~ (Range(calls[1].hostIds) \subseteq db.members)
    /\ calls[1].ended = calls[1].began

\* C27: Wrap(err, id, opts) of a domain error has the code of err, of any
\* other error the code Unknown; it wraps err itself, whatever WithWrap says,
\* has the id given, and has a message only when WithMsg gives one.
C27_Wrap ==
    ev.fn = "Wrap"
    => /\ ev.out.type = "Err"
       /\ ev.out.Code = (IF ev.e.type = "Err" THEN ev.e.Code ELSE "Unknown")
       /\ ev.out.Wrapped = ev.e
       /\ ev.out.ErrorId = ev.id
       /\ ev.out.Msg = ev.opts.withErrMsg
       /\ Unwrap(ev.out) = ev.e
\* a domain error with a message was wrapped with a WithWrap option and no
\* WithMsg
C27_Witness ==
    /\ ev.fn = "Wrap"
    /\ ev.e.type = "Err" /\ ev.e.Code = "InvalidParameter" /\ ev.e.Msg # ""
    /\ ev.opts.withErrWrapped = StdError("dont wrap this error")
    /\ ev.opts.withErrMsg = ""
    /\ ev.out = Err("InvalidParameter", "", "testid", ev.e)

\* C28: Convert has two outcomes and never fails.  Convert of nil, and of any
\* error that is not a store-driver error it recognises, is nil; a unique
\* violation converts to an error that Is ErrNotUnique, a not-null violation
\* to one that Is ErrNotNull, a check violation to one that Is
\* ErrCheckConstraint, a missing relation to one that matches the code
\* MissingTable, and any other error of class 23 to the error
\* NotSpecificIntegrity with the id given.
C28_Convert ==
    ev.fn = "Convert"
    => /\ ev.out = NilError \/ (ev.out.type = "Err" /\ ev.out.ErrorId = ev.id)
       /\ ev.e.type # "pq" => ev.out = NilError
       /\ ev.e.type = "pq" =>
            CASE ev.e.code = "23505" -> Is(ev.out, ErrNotUnique) /\ Match("NotUnique", ev.out)
              [] ev.e.code = "23502" -> Is(ev.out, ErrNotNull) /\ Match("NotNull", ev.out)
              [] ev.e.code = "23514" ->
                   Is(ev.out, ErrCheckConstraint) /\ Match("CheckConstraint", ev.out)
              [] ev.e.code = "42P01" -> Match("MissingTable", ev.out)
              [] SqlClass(ev.e.code) = "23" ->
                   /\ Match("NotSpecificIntegrity", ev.out)
                   /\ ev.e.text = "" => ev.out = New("NotSpecificIntegrity", ev.id, NoOpts)
              [] OTHER -> ev.out = NilError
\* an integrity error of the driver that is none of the named ones was
\* converted under an id
C28_Witness ==
    /\ ev.fn = "Convert"
    /\ ev.e = PqError("23001", "") /\ ev.id = "testid"
    /\ ev.out = New("NotSpecificIntegrity", "testid", NoOpts)

\* the string of a domain error without what it wraps: "<id>: " if it has an
\* id, "<msg>: <kind>" or "<default message>, <kind>", ": error #<number>"
OwnString(e) ==
    (IF e.ErrorId # "" THEN e.ErrorId \o ": " ELSE "")
    \o (IF e.Msg # "" THEN e.Msg \o ": " \o KindString(errorCodeInfo(e.Code).Kind)
        ELSE errorCodeInfo(e.Code).Message \o ", " \o KindString(errorCodeInfo(e.Code).Kind))
    \o ": error #" \o ToString(CodeNumber(e.Code))
\* the strings the tests of Error() expect
StringExamples ==
    /\ ev.e = New("Unknown", "", WithMsg(NoOpts, "test msg"))
         => ev.str = "test msg: unknown: error #0"
    /\ ev.e = New("CheckConstraint", "", NoOpts)
         => ev.str = "constraint check failed, integrity violation: error #1000"
    /\ ev.e = New("Unknown", "uniqueId", NoOpts) => ev.str = "uniqueId: unknown, unknown: error #0"
    /\ ev.e = New("CheckConstraint", "uniqueId", WithMsg(NoOpts, "test msg"))
         => ev.str = "uniqueId: test msg: integrity violation: error #1000"
    /\ ev.e = New("Unknown", "", NoOpts) => ev.str = "unknown, unknown: error #0"
    /\ ev.e = NilError => ev.str = ""

\* C29: the string of a domain error is: "<id>: " if it has an id, then
\* "<msg>: <kind>" if it has a message or "<default message>, <kind>" if not,
\* then ": error #<number>", and nothing else; a nil error has the string "".
C29_ErrorString ==
    ev.fn = "Error"
    => /\ StringExamples
       /\ ev.e.type = "Err" => ev.str = OwnString(ev.e)

\* C29 (as the code has it): as above for an error that wraps nothing; the
\* string of an error that wraps another goes on with ": ", a line break, and
\* the string of the wrapped error.
C29_ErrorStringWrapped ==
    ev.fn = "Error"
    => /\ StringExamples
       /\ (ev.e.type = "Err" /\ ev.e.Wrapped = NilError) => ev.str = OwnString(ev.e)
       /\ (ev.e.type = "Err" /\ ev.e.Wrapped.type = "Err")
            => /\ ev.str = OwnString(ev.e) \o ": \n" \o ErrorString(ev.e.Wrapped)
               /\ ev.e.Wrapped.Wrapped = NilError
                    => ev.str = OwnString(ev.e) \o ": \n" \o OwnString(ev.e.Wrapped)
       /\ (ev.e.type = "Err" /\ ev.e.Wrapped.type = "std")
            => ev.str = OwnString(ev.e) \o ": \n" \o ev.e.Wrapped.text
\* the string of the error Convert makes of a unique violation was asked for
C29_Witness ==
    /\ ev.fn = "Error"
    /\ ev.e = ConvertStoreError(PqError("23505", "Key (name)=(alice) already exists."), "")
    /\ ev.str = "Key (name)=(alice) already exists.: integrity violation: error #1002: \nunique constraint violation: integrity violation: error #1002"

\* C30: Is and Match go by identity and code over the chain of wrapped
\* errors, never by message.  An error Is the error it wraps (Is(Wrap(s, id),
\* s), Is(New(code, id, WithWrap(s)), s)) and Is itself; Unwrap gives the
\* wrapped error, nil when nothing was wrapped; and the answer of Is and of
\* Match for an error is the answer for the same error with another message.
C30_IsAndMatch ==
    /\ ev.fn = "Is"
         => /\ (ev.e.type = "Err" /\ ev.e.Wrapped = ev.target) => ev.ok
            /\ ev.e = ev.target => ev.ok
            /\ (ev.e.type = "Err" /\ ev.target.type = "Err" /\ ev.e.Code = ev.target.Code)
                 => ev.ok
            /\ ev.e.type = "Err"
                 => \A msg \in {"", "test msg", "test error"} :
                       \/ [ev.e EXCEPT !.Msg = msg] = ev.target
                       \/ ev.e = ev.target
                       \/ Is([ev.e EXCEPT !.Msg = msg], ev.target) = ev.ok
    /\ ev.fn = "Match"
         => /\ ev.ok <=> (ev.e.type = "Err" /\ ev.e.Code = ev.code)
            /\ ev.e.type = "Err"
                 => \A msg \in {"", "test msg", "test error"} :
                       Match(ev.code, [ev.e EXCEPT !.Msg = msg]) = ev.ok
    /\ ev.fn = "Unwrap"
         => /\ ev.e.type = "Err" => ev.out = ev.e.Wrapped
            /\ ev.e = NilError => ev.out = NilError
            /\ \A s \in Sentinels, id \in ErrorIds :
                  (ev.e = Wrap(s, id, NoOpts) \/ ev.e = New(s.Code, id, WithWrap(NoOpts, s)))
                  => ev.out = s
\* Is was asked of a wrapped sentinel and the sentinel, under a message of
\* the wrapping error that the sentinel does not have
C30_Witness ==
    /\ ev.fn = "Is"
    /\ ev.target = ErrInvalidParameter
    /\ ev.e = Wrap(ErrInvalidParameter, "testid", WithMsg(NoOpts, "test msg"))
    /\ ev.ok


\* the handler has just answered an error
Handled == ev.fn = "Handle"
\* an error of another package, which the taxonomy does not know
IsForeign(e) == e.type \in {"std", "pq"}

\* C24: the handler's table for domain errors. InvalidFieldMask and
\* EmptyFieldMask give 400 "InvalidArgument" with the message "Error in provided
\* request" and the one field detail update_mask; NotUnique gives 400
\* "InvalidArgument" with the generic uniqueness message; RecordNotFound gives
\* 404 "NotFound" with the generic not-found message; every other domain code
\* and every foreign error gives 500 "Internal"; and no response has a status
\* other than 400, 404, 405 and 500.
C24_DomainTable ==
    Handled =>
      LET e == ev.e
          r == ev.resp
      IN /\ r.Status \in {400, 404, 405, 500}
         /\ e.type = "Err" /\ e.Code \in {"InvalidFieldMask", "EmptyFieldMask"} =>
              /\ r.Status = 400 /\ r.Code = "InvalidArgument"
              /\ r.Message = "Error in provided request"
              /\ Len(r.RequestFields) = 1
              /\ r.RequestFields[1].Name = "update_mask"
         /\ e.type = "Err" /\ e.Code = "NotUnique" =>
              r.Status = 400 /\ r.Code = "InvalidArgument" /\ r.Message = genericUniquenessMsg
         /\ e.type = "Err" /\ e.Code = "RecordNotFound" =>
              r.Status = 404 /\ r.Code = "NotFound" /\ r.Message = genericNotFoundMsg
         /\ \/ e.type = "Err" /\ e.Code \notin {"InvalidFieldMask", "EmptyFieldMask",
                                                 "NotUnique", "RecordNotFound"}
            \/ IsForeign(e)
            => r.Status = 500 /\ r.Code = "Internal"

\* a uniqueness error with an internal message was answered with 400
C24_Witness ==
    /\ Handled
    /\ ev.e.type = "Err" /\ ev.e.Code = "NotUnique" /\ ev.e.Msg = "test msg"
    /\ ev.resp.Status = 400

\* e2 is e with another message text, error id or wrapped cause
DiffersInTextOnly(e, e2) ==
    /\ e2.type = e.type
    /\ e.type = "Err" => e2.Code = e.Code
    /\ e.type = "pq" => e2.code = e.code

\* the text the caller of the errors package gave the error
InternalText(e) == IF e.type = "Err" THEN e.Msg ELSE e.text

\* C25: confidentiality of the handler. Two domain or foreign errors that
\* differ only in message text, error id or wrapped cause get the same Status,
\* Code and Message; the internal message of the error is not in the response;
\* and a 500 response has an empty Message and a non-empty generated ErrorId.
C25_Confidential ==
    Handled =>
      LET e == ev.e
          r == ev.resp
      IN /\ e.type = "Err" \/ IsForeign(e) =>
              /\ \A e2 \in HandlerErrs, gen \in GenIds :
                    DiffersInTextOnly(e, e2) =>
                      LET r2 == WriteError(e2, gen)
                      IN r2.Status = r.Status /\ r2.Code = r.Code /\ r2.Message = r.Message
              /\ InternalText(e) # "" =>
                    /\ r.Message # InternalText(e)
                    /\ \A i \in 1..Len(r.RequestFields) :
                          r.RequestFields[i].Description # InternalText(e)
         /\ r.Status = 500 => r.Message = "" /\ r.ErrorId # "" /\ r.ErrorId = ev.id

\* a domain error with an internal message, an id and a wrapped cause was
\* answered with 500
C25_Witness ==
    /\ Handled
    /\ ev.e.type = "Err" /\ ev.e.Msg = "test msg" /\ ev.e.ErrorId = "testid"
    /\ ev.e.Wrapped # NilError
    /\ ev.resp.Status = 500 /\ ev.resp.ErrorId \in GenIds

\* the place of a field name in the order of names
NameIndex(n) == CHOOSE i \in 1..Len(FieldNames) : FieldNames[i] = n

\* C26: the handler for request and transport errors. A NotFoundErrorf error
\* gives 404 "NotFound" with the caller's message; an InvalidArgumentErrorf
\* error gives 400 "InvalidArgument" with the caller's message and one
\* RequestFields entry for each key of the map, in the order of the field
\* names; the routing error gives 404 "NotFound" with the text of status 404; an
\* RPC status error of code Unimplemented gives 405 "Unimplemented" with its
\* message.
C26_RequestErrors ==
    Handled =>
      LET e == ev.e
          r == ev.resp
      IN /\ e.type = "api" /\ e.Code = "NotFound" =>
              r.Status = 404 /\ r.Code = "NotFound" /\ r.Message = e.Message
         /\ e.type = "api" /\ e.Code = "InvalidArgument" =>
              /\ r.Status = 400 /\ r.Code = "InvalidArgument" /\ r.Message = e.Message
              /\ Len(r.RequestFields) = Cardinality(DOMAIN e.fields)
              /\ \A n \in DOMAIN e.fields :
                    \E i \in 1..Len(r.RequestFields) :
                       r.RequestFields[i] = [Name |-> n, Description |-> e.fields[n]]
              /\ \A i, j \in 1..Len(r.RequestFields) :
                    i < j => NameIndex(r.RequestFields[i].Name)
                               < NameIndex(r.RequestFields[j].Name)
         /\ e.type = "notmatch" =>
              r.Status = 404 /\ r.Code = "NotFound" /\ r.Message = "Not Found"
         /\ e.type = "status" /\ e.code = "Unimplemented" =>
              r.Status = 405 /\ r.Code = "Unimplemented" /\ r.Message = e.text

\* an invalid-argument error with two fields was answered with both, k1 first
C26_Witness ==
    /\ Handled
    /\ ev.e.type = "api" /\ ev.e.Code = "InvalidArgument" /\ ev.e.Message = "Test"
    /\ ev.resp.RequestFields = <<[Name |-> "k1", Description |-> "v1"],
                                 [Name |-> "k2", Description |-> "v2"]>>


\* the functions that are given an entity of the caller
EntityArgOps == {"CreateCatalog", "UpdateCatalog", "CreateHost", "UpdateHost"}

\* C31: CreateCatalog, UpdateCatalog, CreateHost and UpdateHost do not modify
\* the entity the caller passes in: at every point of the call and after it,
\* whether it succeeds or fails, every field of the caller's entity (a host's
\* Address included) has the value it had when the call was made.
C31_InputUnchanged ==
    \A p \in Procs :
       calls[p].op \in EntityArgOps => calls[p].ent = calls[p].arg


\* the functions that read only
ReadOps == {"LookupCatalog", "LookupHost", "ListCatalogs", "ListHosts"}
\* the store has a row of the table of c.op with the id c was given
RowExists(st, c) ==
    \E r \in st[IF c.op \in {"LookupCatalog", "DeleteCatalog"} THEN "catalogs" ELSE "hosts"] :
       r.PublicId = c.publicId
\* the wrapped error of a reader that failed
ReaderFailure == WrapStoreErr("read_failed")

\* C32: a row that is not found is no error for the lookups and for
\* DeleteCatalog. LookupCatalog and LookupHost with an id no row has return
\* (nil, nil) unless the reader fails; DeleteCatalog with such an id returns
\* (0, nil) at once, without resolving a wrapper, opening a transaction or
\* writing an oplog entry; a failure of the reader is returned as the wrapped
\* error; and lookups and lists leave the store as it is.
C32_NotFoundIsNoError ==
    [][\A p \in Procs :
          Enters(p) =>
            LET c == calls'[p]
            IN /\ c.op \in ReadOps => db' = db /\ c.pc = "done"
               /\ c.op \in {"LookupCatalog", "LookupHost"} /\ c.publicId # NoId =>
                    /\ c.err \in {NoErr, ReaderFailure}
                    /\ ~ RowExists(db, c) => c.ret = NoEnt
                    /\ RowExists(db, c) /\ c.err = NoErr =>
                          c.ret \in db[IF c.op = "LookupCatalog" THEN "catalogs" ELSE "hosts"]
                          /\ c.ret.PublicId = c.publicId
               /\ c.op = "DeleteCatalog" /\ c.publicId # NoId /\ ~ RowExists(db, c) =>
                    /\ c.pc = "done" /\ c.count = 0 /\ c.err \in {NoErr, ReaderFailure}
                    /\ db' = db]_vars

\* a lookup of a host that is not there has returned nil, nil
C32_Witness ==
    /\ calls[1].op = "LookupHost" /\ calls[1].pc = "done"
    /\ calls[1].publicId = NewHost /\ ~ RowExists(db, calls[1])
    /\ calls[1].ret = NoEnt /\ calls[1].err = NoErr


\* the fields UpdateCatalog and UpdateHost let a field mask name
MaskAllowed(op) ==
    IF op = "UpdateCatalog" THEN {"name", "description"}
    ELSE {"name", "description", "address"}
\* the mask names the field, in any case of letters
Listed(mask, f) == \E i \in 1..Len(mask) : Fold(mask[i]) = f
\* the place of the first name of the mask that is not allowed, 0 if all are
FirstOutside(op, mask) ==
    LET out == {i \in 1..Len(mask) : Fold(mask[i]) \notin MaskAllowed(op)}
    IN IF out = {} THEN 0 ELSE CHOOSE i \in out : \A j \in out : i <= j
\* the update call c passes the checks of its parameters that come before
\* the field mask
PassesParameterChecks(c) ==
    /\ c.arg # NoEnt /\ c.arg.PublicId # NoId /\ c.scopeId # ""
    /\ c.op = "UpdateHost" => c.version # 0
\* the value the caller gave for a field (an address without the space
\* around it)
GivenValue(c, f) == IF f = "address" THEN TrimSpace(c.arg.Address) ELSE Field(c.arg, f)
\* from st to st2 the row of c was updated as the mask says: a listed field
\* with a value has that value and is not NULL, a listed field with the zero
\* value is NULL (and read back as the zero value), any other field has the
\* value it had and is NULL if and only if it was
SparseUpdate(st, st2, c) ==
    LET t == TableOf(c.op)
        id == c.arg.PublicId
    IN \E old \in st[t], new \in st2[t] :
          /\ old.PublicId = id /\ new.PublicId = id
          /\ c.ret = new
          /\ Parent(t, new) = Parent(t, old)
          /\ \A f \in MaskAllowed(c.op) :
                /\ Listed(c.mask, f) /\ GivenValue(c, f) # "" =>
                      Field(new, f) = GivenValue(c, f) /\ ~ IsNull(st2, t, id, f)
                /\ Listed(c.mask, f) /\ GivenValue(c, f) = "" =>
                      Field(new, f) = "" /\ IsNull(st2, t, id, f)
                /\ ~ Listed(c.mask, f) =>
                      /\ Field(new, f) = Field(old, f)
                      /\ IsNull(st2, t, id, f) <=> IsNull(st, t, id, f)
\* a mask without names, or with allowed names only, is treated as C33 says
MaskAccepted(c) ==
    /\ c.mask = <<>> => c.pc = "done" /\ c.err = NewErr("EmptyFieldMask")
    /\ c.mask # <<>> /\ FirstOutside(c.op, c.mask) = 0 =>
          c.err \notin {NewErr("InvalidFieldMask"), NewErr("EmptyFieldMask")}
\* the error the checks of the field mask end the call with, NoErr if the
\* call goes on: EmptyFieldMask for a mask without names; otherwise, going
\* through the mask, InvalidFieldMask at a name that is not allowed and, in
\* UpdateHost, InvalidAddress at the address when the address given, without
\* the space around it, is shorter or longer than a host address may be,
\* whichever comes first
MaskVerdict(c) ==
    LET out == FirstOutside(c.op, c.mask)
        bad == {i \in 1..Len(c.mask) :
                   /\ c.op = "UpdateHost"
                   /\ Fold(c.mask[i]) = "address"
                   /\ BadAddressLength(TrimSpace(c.arg.Address))}
    IN IF c.mask = <<>> THEN NewErr("EmptyFieldMask")
       ELSE IF out = 0 /\ bad = {} THEN NoErr
       ELSE IF bad = {} \/ (out # 0 /\ \A i \in bad : out < i) THEN NewErr("InvalidFieldMask")
       ELSE NewErr("InvalidAddress")

\* C33: the field mask of UpdateCatalog (name, description) and UpdateHost
\* (name, description, address), matched without regard to case, makes a
\* sparse update: a listed field with a value is overwritten, a listed field
\* with the zero value is set to NULL, a field not listed is left as it was; a
\* mask with a name that is not allowed fails with InvalidFieldMask and an
\* empty mask with EmptyFieldMask, before any transaction and with the store
\* unchanged.
C33_FieldMask ==
    [][\A p \in Procs :
          LET c == calls'[p]
          IN /\ Enters(p) /\ c.op \in UpdateOps /\ PassesParameterChecks(c) =>
                  /\ db' = db
                  /\ MaskAccepted(c)
                  /\ FirstOutside(c.op, c.mask) # 0 =>
                        c.pc = "done" /\ c.err = NewErr("InvalidFieldMask")
             /\ ReturnsFromTx(p) /\ c.op \in UpdateOps /\ c.err = NoErr /\ c.count = 1 =>
                  SparseUpdate(db, db', c)]_vars

\* C33, with the checks of UpdateHost in their order.  An update call that
\* passed the checks before the mask ends, before any transaction and with
\* the store unchanged, with EmptyFieldMask for an empty mask, and otherwise
\* with the error of the first name of the mask that fails: InvalidFieldMask
\* for a name that is not allowed, InvalidAddress (UpdateHost) for the
\* address when the address given is, trimmed, too short or too long, also
\* when every name of the mask is allowed.  A call none of whose names fails
\* goes on to the key manager.  An update that succeeds overwrites a listed
\* field that has a value, which is then not NULL (the address with the
\* trimmed value, and an address that passed is never NULL), sets a listed
\* name or description with the zero value to NULL, and leaves every other
\* field as it was, value and NULL.
C33_FieldMaskInOrder ==
    [][\A p \in Procs :
          LET c == calls'[p]
          IN /\ Enters(p) /\ c.op \in UpdateOps /\ PassesParameterChecks(c) =>
                  /\ db' = db
                  /\ c.err = MaskVerdict(c)
                  /\ c.pc = IF MaskVerdict(c) = NoErr THEN "kms" ELSE "done"
             /\ ReturnsFromTx(p) /\ c.op \in UpdateOps /\ c.err = NoErr /\ c.count = 1 =>
                  /\ SparseUpdate(db, db', c)
                  /\ ~ IsNull(db', TableOf(c.op), c.arg.PublicId, "address")]_vars

\* an UpdateHost with the mask Description and no description has updated a
\* host a second time: its description is NULL, and its name, which the
\* first update set and which the mask does not list, is as it was
C33_Witness ==
    /\ calls[1].op = "UpdateHost" /\ calls[1].pc = "done"
    /\ calls[1].err = NoErr /\ calls[1].count = 1
    /\ calls[1].mask = <<"Description">> /\ calls[1].arg.Description = ""
    /\ \E r \in db.hosts :
          /\ r.PublicId = calls[1].arg.PublicId /\ r.Version = 3
          /\ r.Name = "a" /\ ~ IsNull(db, "hosts", r.PublicId, "name")
          /\ r.Description = "" /\ IsNull(db, "hosts", r.PublicId, "description")

\* the calls the transaction of a membership function makes of the writer
\* and the reader when nothing fails, in the order the claim gives
TxOrder(c) ==
    (IF c.op = "AddSetMembers" THEN <<"CreateItems">>
     ELSE IF c.op = "DeleteSetMembers" THEN <<"DeleteItems">>
     ELSE (IF Len(c.deletions) > 0 THEN <<"DeleteItems">> ELSE <<>>)
          \o (IF Len(c.additions) > 0 THEN <<"CreateItems">> ELSE <<>>))
    \o <<"Update", "GetTicket", "WriteOplogEntryWith">>
    \o (IF c.op = "DeleteSetMembers" THEN <<>> ELSE <<"SearchWhere">>)

\* s is t cut short
IsPrefix(s, t) == Len(s) <= Len(t) /\ SubSeq(t, 1, Len(s)) = s

\* C35: the transaction of a membership function makes its calls in one
\* order: the deletions, the additions, the update of the set's version, the
\* ticket, the one write of the oplog entry, the read of the hosts.  A run
\* that fails stops somewhere along that order, a run that succeeds went
\* through all of it; the oplog grows, by one entry, only when the run went
\* through the write after the changes of the rows, and the hosts returned by
\* AddSetMembers and SetSetMembers are the members the transaction commits.
C35_StepsInOrder ==
    [][\A p \in Procs :
          ReturnsFromTx(p) /\ calls[p].op \in MemberOps =>
              LET c == calls'[p]
              IN /\ IsPrefix(c.steps, TxOrder(c))
                 /\ c.err = NoErr => c.steps = TxOrder(c)
                 /\ Len(db'.oplog) <= Len(db.oplog) + 1
                 /\ Len(db'.oplog) > Len(db.oplog) =>
                        /\ c.err = NoErr
                        /\ \E i \in 1..Len(c.steps) :
                              /\ c.steps[i] = "WriteOplogEntryWith"
                              /\ \A j \in 1..Len(c.steps) :
                                    c.steps[j] \in {"DeleteItems", "CreateItems", "Update"}
                                        => j < i
                 /\ (c.err = NoErr /\ c.op # "DeleteSetMembers" /\ c.setId = TheSet) =>
                        c.hosts = db'.members]_vars

\* a SetSetMembers that deleted and added members has returned its hosts
C35_Witness ==
    \E p \in Procs :
        /\ calls[p].op = "SetSetMembers" /\ calls[p].pc = "done" /\ calls[p].err = NoErr
        /\ Len(calls[p].deletions) > 0 /\ Len(calls[p].additions) > 0
        /\ calls[p].steps = <<"DeleteItems", "CreateItems", "Update", "GetTicket",
                              "WriteOplogEntryWith", "SearchWhere">>
        /\ calls[p].hosts = db.members

\* C36: SetSetMembers called with a scope, the set, a version other than 0
\* and a list of exactly the hosts that are the set's members, the change
\* query answering, returns at once with count 0, no hosts and a nil error,
\* whatever the version is, and leaves the store as it was.
C36_NoVersionCheckOnEmptyDelta ==
    [][\A p \in Procs :
          (/\ Enters(p) /\ calls'[p].op = "SetSetMembers"
           /\ calls'[p].scopeId # "" /\ calls'[p].setId = TheSet
           /\ calls'[p].version # 0
           /\ Range(calls'[p].hostIds) = db.members
           /\ calls'[p].err.cause # "read_failed")
          => /\ calls'[p].pc = "done"
             /\ calls'[p].err = NoErr
             /\ calls'[p].count = 0
             /\ calls'[p].hosts = {}
             /\ db' = db]_vars

\* a SetSetMembers with a version that is not the set's, on the members the
\* set has, has returned
C36_Witness ==
    \E p \in Procs :
        /\ calls[p].op = "SetSetMembers" /\ calls[p].pc = "done"
        /\ calls[p].scopeId # "" /\ calls[p].setId = TheSet
        /\ calls[p].version \notin {0, db.setVersion}
        /\ db.members # {} /\ Range(calls[p].hostIds) = db.members
        /\ calls[p].err = NoErr /\ calls[p].count = 0

\* the call as it is when DoTx runs the body for the first time
FirstAttempt(c) ==
    [c EXCEPT !.retries = 0, !.txErr = NoErr, !.steps = <<>>, !.meta = <<>>,
              !.rowsUpdated = 0, !.rowsDeleted = 0]

\* the store and the call after DoTx ran the body once, with no fault
OnceDoTx(st, c) ==
    CASE c.op = "AddSetMembers" -> AddSetMembersDoTx(st, c, "none")
      [] c.op = "DeleteSetMembers" -> DeleteSetMembersDoTx(st, c, "none")
      [] c.op = "SetSetMembers" -> SetSetMembersDoTx(st, c, "none")
      [] c.op = "CreateCatalog" -> CreateCatalogDoTx(st, c, "none")
      [] c.op = "UpdateCatalog" -> UpdateCatalogDoTx(st, c, "none")
      [] c.op = "DeleteCatalog" -> DeleteCatalogDoTx(st, c, "none")
      [] c.op = "CreateHost" -> CreateHostDoTx(st, c, "none")
      [] c.op = "UpdateHost" -> UpdateHostDoTx(st, c, "none")
      [] c.op = "DeleteHost" -> DeleteHostDoTx(st, c, "none")

\* the tags of the oplog entry of a membership call
MemberTags(c) ==
    IF c.op = "AddSetMembers" THEN <<"CREATE">>
    ELSE IF c.op = "DeleteSetMembers" THEN <<"DELETE">>
    ELSE <<"UPDATE">> \o (IF Len(c.deletions) > 0 THEN <<"DELETE">> ELSE <<>>)
                      \o (IF Len(c.additions) > 0 THEN <<"CREATE">> ELSE <<>>)

\* C37: a call whose body succeeds after DoTx has run it again leaves the
\* store, and returns to its caller, what one run of the body with no fault
\* leaves and returns: nothing of the runs that were rolled back is in the
\* rows, in the version, in the oplog entry (at most one, with the tags and
\* the messages of one run) or in the results.
C37_RetryEqualsOnce ==
    [][\A p \in Procs :
          (ReturnsFromTx(p) /\ calls[p].retries > 0 /\ calls'[p].err = NoErr) =>
              LET once == OnceDoTx(db, FirstAttempt(calls[p]))
              IN /\ db' = once.db
                 /\ [calls'[p] EXCEPT !.txErr = NoErr] = Ended(once.call, Len(once.db.oplog))
                 /\ Len(db'.oplog) <= Len(db.oplog) + 1
                 /\ calls[p].op \in MemberOps =>
                        /\ Len(db'.oplog) = Len(db.oplog) + 1
                        /\ db'.oplog[Len(db'.oplog)].metadata.opTypes = MemberTags(calls[p])
                        /\ db'.setVersion \in {db.setVersion, calls[p].version + 1}]_vars

\* a SetSetMembers that deleted and added members has returned from a run of
\* its body that was not the first
C37_Witness ==
    \E p \in Procs :
        /\ calls[p].op = "SetSetMembers" /\ calls[p].pc = "done" /\ calls[p].err = NoErr
        /\ calls[p].txErr # NoErr
        /\ Len(calls[p].deletions) > 0 /\ Len(calls[p].additions) > 0
        /\ calls[p].ended = calls[p].began + 1

\* the oplog entries that record the deletion of the catalog id
DeleteEntries(st, id) ==
    {i \in 1..Len(st.oplog) :
        /\ st.oplog[i].metadata.resourceId = id
        /\ st.oplog[i].metadata.opTypes = <<"DELETE">>}

\* the call of p is a DeleteCatalog of the catalog that was entered while the
\* catalog was there
DeletesTheCatalog(p) ==
    /\ calls[p].op = "DeleteCatalog" /\ calls[p].publicId = TheCatalog
    /\ calls[p].began = 0

\* C38: of two calls of DeleteCatalog on the one id, both entered while the
\* catalog is there, the calls that have returned returned a nil error, one
\* of them at most 1 row and every other 0 rows; when both have returned,
\* exactly one returned 1; and the oplog has one DELETE entry of the catalog
\* when it is gone, none before, whatever the order of the steps of the two.
C38_OneDeleteWins ==
    /\ Cardinality(DeleteEntries(db, TheCatalog))
           = (IF \E r \in db.catalogs : r.PublicId = TheCatalog THEN 0 ELSE 1)
    /\ \A p \in Procs :
          (DeletesTheCatalog(p) /\ calls[p].pc = "done") =>
              calls[p].err = NoErr /\ calls[p].count \in {0, 1}
    /\ \A p, q \in Procs :
          (/\ p # q
           /\ DeletesTheCatalog(p) /\ calls[p].pc = "done"
           /\ DeletesTheCatalog(q) /\ calls[q].pc = "done")
          => /\ {calls[p].count, calls[q].count} = {0, 1}
             /\ Cardinality(DeleteEntries(db, TheCatalog)) = 1

\* two calls that both found the catalog have returned: one deleted it, the
\* other, whose transaction came second, deleted no row
C38_Witness ==
    \E p, q \in Procs :
        /\ p # q
        /\ DeletesTheCatalog(p) /\ calls[p].pc = "done" /\ calls[p].loc # NoEnt
        /\ DeletesTheCatalog(q) /\ calls[q].pc = "done" /\ calls[q].loc # NoEnt
        /\ calls[p].count = 1 /\ calls[q].count = 0 /\ calls[q].err = NoErr
        /\ calls[q].ended = 1

====
